---- MODULE Spec2Model ----
(***************************************************************************)
(* Model of the PyInstaller archive extractor (pyinstxtractor/Pyextract).  *)
(*                                                                         *)
(* The command-line program src/src/PyInstaller.cpp is modelled: the       *)
(* sequential decode phase (open, checkFile, getCArchiveInfo, parseTOC)    *)
(* followed by the thread-pool extraction of src/src/ThreadPool.cpp.       *)
(*                                                                         *)
(* Representation of the data:                                             *)
(*   - a file is a sequence of bytes 0..255; file offset o is index o+1;   *)
(*   - a uint32_t or uint64_t value v is held as the integer r congruent   *)
(*     to v modulo 2^32 (2^64) with least magnitude (two's complement):    *)
(*     r >= 0 stands for r itself and r < 0 for 2^w + r.  Addition and     *)
(*     subtraction modulo 2^w are addition and subtraction of these        *)
(*     integers; the unsigned order puts every negative representative     *)
(*     above every non-negative one (ULess).  cookiePos(-1) is -1.         *)
(*   - the std::ifstream fPtr is its get position and its failbit: once a  *)
(*     read comes up short the failbit stays set (the program never calls  *)
(*     clear()), and every later seekg and read does nothing.              *)
(***************************************************************************)
EXTENDS Integers, Sequences, FiniteSets, TLC

(***************************************************************************)
(* Bounds of the model.                                                    *)
(***************************************************************************)
MaxPieces == 4        \* pieces of a signature-search file
MaxSmallChunk == 10   \* largest scaled-down search chunk size (>= 8)
MaxEntries == 2       \* records in a generated table of contents
MaxWorkers == 2       \* physical cores of the machine, at most

(***************************************************************************)
(* Program constants.                                                      *)
(***************************************************************************)
MAGIC == <<77, 69, 73, 12, 11, 10, 11, 14>>    \* "MEI\014\013\012\013\016"
PYINST20_COOKIE_SIZE == 24
PYINST21_COOKIE_SIZE == 24 + 64
SearchChunkSize == 8192
VersionProbeSize == 64
PythonToken == <<112, 121, 116, 104, 111, 110>>   \* "python"

Byte == 0..255

(***************************************************************************)
(* Sequence helpers.                                                       *)
(***************************************************************************)
Min(a, b) == IF a < b THEN a ELSE b
Max(a, b) == IF a > b THEN a ELSE b

RECURSIVE Concat(_)
Concat(ss) == IF ss = <<>> THEN <<>> ELSE Head(ss) \o Concat(Tail(ss))

Repeat(b, n) == [i \in 1..n |-> b]

\* bytes of the file at offsets off .. off+n-1 (all inside the file)
Slice(f, off, n) == [i \in 1..n |-> f[off + i]]

\* s contains t as a contiguous substring
Contains(s, t) ==
    \E i \in 0..(Len(s) - Len(t)) : \A k \in 1..Len(t) : s[i + k] = t[k]

\* the file has the 8 magic bytes at offsets p .. p+7
MagicAt(f, p) ==
    /\ p >= 0
    /\ p + Len(MAGIC) <= Len(f)
    /\ \A k \in 1..Len(MAGIC) : f[p + k] = MAGIC[k]

(***************************************************************************)
(* Unsigned comparison of two's-complement representatives.                *)
(***************************************************************************)
ULess(a, b) == IF (a < 0) = (b < 0) THEN a < b ELSE b < 0
UGeq(a, b) == ~ULess(a, b)
UGreater(a, b) == ULess(b, a)

(***************************************************************************)
(* 32-bit words.  A uint32_t object is its four bytes in memory order; on  *)
(* the little-endian host byte k of the object holds bits 8k..8k+7.        *)
(***************************************************************************)
\* *reinterpret_cast<uint32_t*>(buffer + off)
LoadWord(buf, off) == <<buf[off + 1], buf[off + 2], buf[off + 3], buf[off + 4]>>

\* the word read in host order, without the swap
hostOrder(w) == w

\* the shifts and masks of swapBytes move byte 3 to byte 0, 2 to 1, 1 to 2, 0 to 3
swapBytes(w) == <<w[4], w[3], w[2], w[1]>>

\* the value of a word, as the representative of least magnitude modulo 2^32
WordVal(w) ==
    w[1] + w[2] * 256 + w[3] * 65536
         + (IF w[4] >= 128 THEN w[4] - 256 ELSE w[4]) * 16777216

\* big-endian encoding of 0 <= v < 2^31, as the archive builder stores it
BE32(v) == <<v \div 16777216, (v \div 65536) % 256, (v \div 256) % 256, v % 256>>

\* the base-256 digits, most significant first, of the unsigned value that
\* the representative v stands for
Digits(v) == <<(v \div 16777216) % 256, (v \div 65536) % 256, (v \div 256) % 256, v % 256>>

(***************************************************************************)
(* std::to_string of a non-negative integer, as decimal digit characters.  *)
(***************************************************************************)
RECURSIVE to_string(_)
to_string(n) ==
    IF n < 10 THEN <<48 + n>> ELSE to_string(n \div 10) \o <<48 + (n % 10)>>

\* ::tolower in the "C" locale on an ASCII byte
ToLower(c) == IF c >= 65 /\ c <= 90 THEN c + 32 ELSE c

(***************************************************************************)
(* The std::ifstream fPtr: get position and failbit.                       *)
(***************************************************************************)
\* fPtr.seekg(pos, std::ios::beg): nothing happens while the failbit is set
Seekg(s, pos) == IF s.fail THEN s ELSE [s EXCEPT !.pos = pos]

\* number of bytes fPtr.read(buf, n) extracts (gcount) from file f
Gcount(f, s, n) ==
    IF s.fail \/ s.pos < 0 \/ s.pos >= Len(f) THEN 0 ELSE Min(n, Len(f) - s.pos)

\* the bytes fPtr.read(buf, n) stores at the start of buf
ReadBytes(f, s, n) == Slice(f, s.pos, Gcount(f, s, n))

\* the stream after fPtr.read(buf, n): a short read sets eofbit and failbit
AfterRead(f, s, n) ==
    IF s.fail THEN s
    ELSE [pos |-> s.pos + Gcount(f, s, n), fail |-> Gcount(f, s, n) < n]

(***************************************************************************)
(* findCookie: one pass of its while loop over the chunk                   *)
(* [startPos, startPos + chunkSize).                                       *)
(***************************************************************************)
\* buffer[i] after fPtr.read(buffer.data(), chunkSize) and the loop
\* "buffer[i] = buffer[i - chunkSize]" for i = chunkSize .. buffer.size()-1
RECURSIVE BufferAt(_, _, _, _)
BufferAt(f, startPos, chunkSize, i) ==
    IF i < chunkSize THEN f[startPos + i + 1]
    ELSE BufferAt(f, startPos, chunkSize, i - chunkSize)

\* std::memcmp(buffer.data() + i, MAGIC.c_str(), MAGIC.size()) == 0
BufferMatch(f, startPos, chunkSize, i) ==
    \A k \in 0..(Len(MAGIC) - 1) :
        BufferAt(f, startPos, chunkSize, i + k) = MAGIC[k + 1]

\* for (size_t i = chunkSize; i-- > 0;): the first i that matches, or -1
RECURSIVE ScanBack(_, _, _, _)
ScanBack(f, startPos, chunkSize, i) ==
    IF i = 0 THEN -1
    ELSE IF BufferMatch(f, startPos, chunkSize, i - 1) THEN i - 1
    ELSE ScanBack(f, startPos, chunkSize, i - 1)

ChunkStart(end, chunk) == IF end >= chunk THEN end - chunk ELSE 0

(***************************************************************************)
(* determinePyinstallerVersion: the 64 bytes read at cookiePos + 24, then  *)
(* the case-insensitive search for "python".                               *)
(***************************************************************************)
ProbeStream(s, cookie) == Seekg(s, cookie + PYINST20_COOKIE_SIZE)

ProbeHasPython(buffer64) ==
    Contains([i \in 1..Len(buffer64) |-> ToLower(buffer64[i])], PythonToken)

(***************************************************************************)
(* readArchiveData and calculateOverlayInfo.                               *)
(***************************************************************************)
CookieSize(ver) == IF ver = 20 THEN PYINST20_COOKIE_SIZE ELSE PYINST21_COOKIE_SIZE

\* swapBytes(*reinterpret_cast<uint32_t*>(buffer + off))
Field(buffer, off) == WordVal(swapBytes(LoadWord(buffer, off)))

TailBytes(size, cookie, ver) == size - cookie - CookieSize(ver)
OverlaySize(size, cookie, ver, lengthofPackage) ==
    lengthofPackage + TailBytes(size, cookie, ver)
OverlayPos(size, cookie, ver, lengthofPackage) ==
    size - OverlaySize(size, cookie, ver, lengthofPackage)
AltTableOfContentsPos(cookie, ver, tocOff) == cookie + CookieSize(ver) + tocOff

\* the bounds test with its first disjunct only
TocOutOfBoundsPosOnly(pos, size, fsize) == UGeq(pos, fsize)

\* tableOfContentsPos >= fileSize || tableOfContentsPos + tableOfContentsSize > fileSize
TocOutOfBounds(pos, size, fsize) ==
    UGeq(pos, fsize) \/ UGreater(pos + size, fsize)

(***************************************************************************)
(* decodeEntryName and addTOCEntry.                                        *)
(***************************************************************************)
RemoveByte(s, b) == SelectSeq(s, LAMBDA c : c # b)
ReplaceByte(s, a, b) == [i \in 1..Len(s) |-> IF s[i] = a THEN b ELSE s[i]]
HasByte(s, b) == \E i \in 1..Len(s) : s[i] = b

Slash == 47
Backslash == 92
Dot == 46
Underscore == 95
Whitespace == {32, 9, 10, 13}
UnnamedPrefix == <<117, 110, 110, 97, 109, 101, 100, 95>>   \* "unnamed_"
PycSuffix == <<46, 112, 121, 99>>                           \* ".pyc"
ScriptTypes == {115, 109}                                   \* 's', 'm'

\* the name after the NUL bytes are erased
StripNul(nameBuffer) == RemoveByte(nameBuffer, 0)

IsValidName(name) ==
    /\ name # <<>>
    /\ name[1] # Slash
    /\ name[1] # Backslash
    /\ \E i \in 1..Len(name) : name[i] \notin Whitespace
    /\ \A i \in 1..Len(name) : ~(name[i] < 32 \/ name[i] > 126)

FallbackName(parsedLength, cnt) ==
    UnnamedPrefix \o to_string(parsedLength) \o <<Underscore>> \o to_string(cnt)

\* std::replace(name.begin(), name.end(), '.', '_')
NormalizeName(name) == ReplaceByte(name, Dot, Underscore)

\* the returned name, given the static counter's value on entry
decodeEntryName(nameBuffer, parsedLength, cnt) ==
    LET name == StripNul(nameBuffer)
    IN  NormalizeName(IF IsValidName(name) THEN name
                      ELSE FallbackName(parsedLength, cnt))

\* the static counter after the call
CounterAfter(nameBuffer, cnt) ==
    IF IsValidName(StripNul(nameBuffer)) THEN cnt ELSE cnt + 1

\* the CTOCEntry that addTOCEntry appends.  CTOCEntry::position is a uint32_t:
\* the constructor keeps the low 32 bits of overlayPos + entryPos, which is
\* what the sum of the representatives stands for
addTOCEntry(ovPos, entryPos, cmprsdDataSize, uncmprsdDataSize, cmprsFlag, typeCmprsData, name) ==
    [position         |-> ovPos + entryPos,
     cmprsdDataSize   |-> cmprsdDataSize,
     uncmprsdDataSize |-> uncmprsdDataSize,
     cmprsFlag        |-> cmprsFlag,
     typeCmprsData    |-> typeCmprsData,
     name             |-> IF typeCmprsData \in ScriptTypes /\ ~HasByte(name, Dot)
                          THEN name \o PycSuffix ELSE name]

sizeofEntry == 4 + 4 + 4 + 4 + 1 + 1

(***************************************************************************)
(* Input files.  An archive is laid out as the builder writes it:          *)
(*   prefix | payload bytes | table of contents | cookie | trailing bytes  *)
(* with every multi-byte field big-endian.                                 *)
(***************************************************************************)
\* a TOC record: entrySize, entryPos, sizes, flag, type, name buffer
EncodeEntry(e) ==
    BE32(sizeofEntry + Len(e.nameBuffer)) \o BE32(e.entryPos)
        \o BE32(e.cmprsdDataSize) \o BE32(e.uncmprsdDataSize)
        \o <<e.cmprsFlag, e.typeCmprsData>> \o e.nameBuffer

\* the TOC bytes of a sequence of records
RECURSIVE EncodeAll(_)
EncodeAll(q) == IF q = <<>> THEN <<>> ELSE EncodeEntry(Head(q)) \o EncodeAll(Tail(q))

\* payload region: 3 raw bytes "ABC", then a compressed stream of "DE"
ZHeader == 120
Payload == <<65, 66, 67, ZHeader, 2, 68, 69>>

Entry(pos, csize, usize, flag, type, nameBuffer) ==
    [entryPos |-> pos, cmprsdDataSize |-> csize, uncmprsdDataSize |-> usize,
     cmprsFlag |-> flag, typeCmprsData |-> type, nameBuffer |-> nameBuffer]

ERaw == Entry(0, 3, 3, 0, 120, <<97, 46, 112, 121>>)       \* 'x' "a.py"
EMod == Entry(3, 4, 2, 1, 109, <<109>>)                    \* 'm' "m"
EScript == Entry(0, 3, 3, 0, 115, <<115, 46, 112, 121>>)   \* 's' "s.py"
EBad == Entry(0, 3, 3, 0, 98, <<0, 0>>)                    \* 'b', NUL name
EBig == Entry(3, 4, 3, 1, 120, <<103>>)      \* "g": declares 3, stream holds 2
ESmall == Entry(3, 4, 1, 1, 120, <<104>>)    \* "h": declares 1, stream holds 2
EDup == Entry(3, 4, 4, 0, 120, <<97, 46, 112, 121>>)       \* second "a.py"
EPast == Entry(5000, 3, 3, 0, 120, <<101>>)  \* "e": payload past the file end
EFile == Entry(0, 3, 3, 0, 120, <<100>>)                   \* "d"
ENest == Entry(3, 4, 4, 0, 120, <<100, 47, 102>>)          \* "d/f"
EDrive == Entry(0, 3, 3, 0, 120, <<67, 58, 47, 120>>)      \* "C:/x"
EUp == Entry(0, 3, 3, 0, 120, <<46, 46, 47, 120>>)         \* "../x"
ERoot == Entry(0, 3, 3, 0, 120, <<47, 120>>)               \* "/x"

WellFormed == {ERaw, EMod, EScript}
ShortRecord == BE32(4)      \* an entrySize field below sizeofEntry

Records ==
    {EncodeEntry(e) : e \in {ERaw, EMod, EScript, EBad, EBig, ESmall, EDup, EPast}}
        \cup {ShortRecord}

RECURSIVE SeqsUpTo(_, _)
SeqsUpTo(S, n) ==
    IF n = 0 THEN {<<>>}
    ELSE LET shorter == SeqsUpTo(S, n - 1)
         IN  shorter \cup {Append(q, x) : q \in {r \in shorter : Len(r) = n - 1}, x \in S}

Tocs == {Concat(q) : q \in SeqsUpTo(Records, MaxEntries)}

PyVer == 311
Cookie(pkg, off, len) == MAGIC \o BE32(pkg) \o BE32(off) \o BE32(len) \o BE32(PyVer)

Archive(pre, tocBytes, pkg, off, len, tail) ==
    Repeat(0, pre) \o Payload \o tocBytes \o Cookie(pkg, off, len) \o tail

\* trailing regions
PyLibTag == <<80, 121, 116, 72, 111, 110, 51, 46, 100, 108, 108>>   \* "PytHon3.dll"
TagV1 == PythonToken \o Repeat(0, 58)
TagMixed == PyLibTag \o Repeat(0, 53)
TagLate == Repeat(0, 58) \o PythonToken
TagCut == Repeat(0, 59) \o PythonToken          \* the 'n' is byte 65
TailV0 == Repeat(0, VersionProbeSize)
TailToc == EncodeEntry(ERaw) \o Repeat(0, 42)   \* a record right after the cookie

\* well-built archives over every generated table of contents
ArchivesOf(t) ==
    { Archive(0, t, Len(Payload) + Len(t) + PYINST21_COOKIE_SIZE, Len(Payload), Len(t), TagV1),
      Archive(1, t, Len(Payload) + Len(t) + PYINST20_COOKIE_SIZE, Len(Payload), Len(t), TailV0) }

TocFiles == UNION {ArchivesOf(t) : t \in Tocs}

\* records whose names point out of the output directory
NameRecords == {EncodeEntry(e) : e \in {EDrive, EUp, ERoot}}
NameTocs == {Concat(q) : q \in SeqsUpTo(NameRecords, MaxEntries)}
NameFiles == UNION {ArchivesOf(t) : t \in NameTocs}

\* records with an entryPos field of 2^32 - 1, held as the representative -1,
\* in archives whose payload region starts at file offset 1
EWrap == Entry(-1, 3, 3, 0, 120, <<119>>)                  \* "w"
EncodeWide(e) ==
    BE32(sizeofEntry + Len(e.nameBuffer)) \o Digits(e.entryPos)
        \o BE32(e.cmprsdDataSize) \o BE32(e.uncmprsdDataSize)
        \o <<e.cmprsFlag, e.typeCmprsData>> \o e.nameBuffer
WideSeqs == SeqsUpTo({EFile, EWrap}, MaxEntries) \ {<<>>}
WideToc(q) == Concat([i \in 1..Len(q) |-> EncodeWide(q[i])])
WideArchive(q) ==
    Archive(1, WideToc(q), Len(Payload) + Len(WideToc(q)) + PYINST20_COOKIE_SIZE,
            Len(Payload), Len(WideToc(q)), TailV0)
WideFiles == {WideArchive(q) : q \in WideSeqs}

\* well-formed records of which the last starts inside the declared TOC
\* region and ends behind it: the header declares cut bytes less than the
\* records take
OverrunSeqs == {q \in SeqsUpTo({EFile, EMod}, MaxEntries) : Len(q) >= 2}
Cuts == {1, 4, 15}
OverrunArchive(q, cut) ==
    Archive(0, EncodeAll(q), Len(Payload) + Len(EncodeAll(q)) + PYINST21_COOKIE_SIZE,
            Len(Payload), Len(EncodeAll(q)) - cut, TagV1)
OverrunFiles == {OverrunArchive(q, cut) : q \in OverrunSeqs, cut \in Cuts}

\* one record; one of the four header fields holds four sample bytes, the
\* other three the values of a well-formed archive.  The version field,
\* which no computation uses, takes every sample in its first byte; the
\* fields that calculateOverlayInfo adds to file offsets take first bytes
\* whose sums stay within the integers of the model checker.
ByteSamples == {0, 1, 127, 128, 255}
LowSamples == {0, 1, 63}
Words(first) == {<<a, b, c, d>> : a \in first, b \in ByteSamples, c \in ByteSamples, d \in ByteSamples}
FieldDefaults ==
    <<BE32(Len(Payload) + sizeofEntry + 4 + PYINST21_COOKIE_SIZE), BE32(Len(Payload)),
      BE32(sizeofEntry + 4), BE32(PyVer)>>
FieldFile(k, w) ==
    LET words == [FieldDefaults EXCEPT ![k] = w]
    IN  Payload \o EncodeEntry(ERaw) \o MAGIC \o Concat(words) \o TagV1
FieldFiles ==
    {FieldFile(k, w) : k \in 1..3, w \in Words(LowSamples)}
        \cup {FieldFile(4, w) : w \in Words(ByteSamples)}

\* one record, every combination of header values
HeaderFiles ==
    {Archive(pre, EncodeEntry(ERaw), pkg, off, len, tail) :
        pre \in {0, 1}, pkg \in {0, 53, 117, 200}, off \in {0, 7, 90, 300},
        len \in {0, 22, 64, 300}, tail \in {TagV1, TailToc}}

\* one record, every trailing region (also ones shorter than the probe)
TagFiles ==
    {Archive(0, EncodeEntry(ERaw), pkg, Len(Payload), 22, tail) :
        pkg \in {53, 117},
        tail \in {<<>>, Repeat(0, 10), PythonToken, TagV1, TagMixed, TagLate,
                  TagCut, TailV0}}

\* files for the signature search: pieces of the magic and filler
MagicHead == SubSeq(MAGIC, 1, 4)
MagicTail == SubSeq(MAGIC, 5, 8)
Pieces == {MAGIC, MagicHead, MagicTail, <<0>>}
SearchFiles == {Concat(q) : q \in SeqsUpTo(Pieces, MaxPieces)}
SmallChunks == Len(MAGIC)..MaxSmallChunk

\* the chunk "tail of the magic, head of the magic" matches across its end,
\* and a whole header's worth of bytes follows it
FalseMatchFile == MagicTail \o MagicHead \o Repeat(0, PYINST21_COOKIE_SIZE)

Inputs ==
    {[file |-> f, chunk |-> c] : f \in SearchFiles, c \in SmallChunks \cup {SearchChunkSize}}
    \cup
    {[file |-> FalseMatchFile, chunk |-> Len(MAGIC)]}
    \cup
    {[file |-> f, chunk |-> SearchChunkSize] : f \in TocFiles \cup NameFiles \cup WideFiles \cup OverrunFiles \cup FieldFiles
                                             \cup HeaderFiles
                                             \cup TagFiles}

(***************************************************************************)
(* State.                                                                  *)
(***************************************************************************)
Workers == 1..MaxWorkers

VARIABLES
    file,                 \* the bytes of the archive file
    searchChunkSize,      \* the chunk size findCookie is called with
    command,              \* "-i" or "-u"
    pc,                   \* where parseArgs is
    status,               \* "running", "ok", or the error that ended the run
    fileSize, cookiePos, endPos, pyinstVer,
    fPtr,                 \* [pos, fail] of the shared std::ifstream
    lengthofPackage, toc, tocLen, pyver,
    overlaySize, overlayPos, tableOfContentsPos, tableOfContentsSize,
    tocList, parsedLen,
    counter,              \* the function-local static of decodeEntryName
    parseRun,             \* 1: parseTOC inside getCArchiveInfo, 2: the call before extraction
    listed,               \* the entry list getCArchiveInfo returned with
    numCores,             \* the value of "-cores N", 0 when absent
    maxCores,             \* what getPhysicalCoreCount returns
    unwritable,           \* the output paths std::ofstream cannot open
    numThreads,           \* the size of the pool
    tasks,                \* ThreadPool::tasks, as indices into tocList
    stop,                 \* ThreadPool::stop
    enqueued,             \* number of entries the for loop has enqueued
    wpc,                  \* where each worker thread is
    wtask,                \* the entry each worker's task is for
    wdata,                \* compressedData, then decompressedData, of each task
    mtx,                  \* the worker that holds PyInstArchive::mtx, or 0
    outputs,              \* the files under outputDir: path |-> bytes
    dirs,                 \* the directories under outputDir
    result,               \* per entry, the line its task printed
    streamAtStart,        \* history: fPtr when MultiThreadedFileExtract was entered
    m_selectedFile,       \* ExtractionWorker: the name to extract, <<>> for all
    toExtract,            \* ExtractionWorker::startExtraction: the entries it chose
    extractIndex,         \* the i of its for loop
    signals,              \* the Qt signals it has emitted, in order
    queueMutex,           \* the thread that holds ThreadPool::queueMutex, or 0
    printMtx              \* the worker that holds PyInstArchive::printMtx, or 0

\* the state of the graphical front end's worker; the command-line program
\* has none and leaves it alone
workerVars == <<m_selectedFile, toExtract, extractIndex, signals>>
\* the holders of the queue and print mutexes, followed by the model of the
\* pool that takes every lock in a step of its own
syncVars == <<queueMutex, printMtx>>
inputVars == <<file, searchChunkSize, command, workerVars, syncVars>>
cookieVars == <<fileSize, cookiePos, endPos, pyinstVer>>
headerVars == <<lengthofPackage, toc, tocLen, pyver>>
layoutVars == <<overlaySize, overlayPos, tableOfContentsPos, tableOfContentsSize>>
tocVars == <<tocList, parsedLen, counter, parseRun, listed>>
decodeVars == <<inputVars, pc, status, cookieVars, fPtr, headerVars, layoutVars, tocVars>>
envVars == <<numCores, maxCores, unwritable>>
poolVars == <<envVars, numThreads, tasks, stop, enqueued, wpc, wtask, wdata, mtx,
              outputs, dirs, result, streamAtStart>>

InitArchive(inputs, envs) ==
    /\ \E in \in inputs : file = in.file /\ searchChunkSize = in.chunk
    /\ \E env \in envs :
           numCores = env.cores /\ maxCores = env.max /\ unwritable = env.unwritable
    /\ toExtract = <<>>
    /\ extractIndex = 0
    /\ signals = <<>>
    /\ queueMutex = 0
    /\ printMtx = 0
    /\ pc = "open"
    /\ status = "running"
    /\ fileSize = 0
    /\ cookiePos = -1
    /\ endPos = 0
    /\ pyinstVer = 0
    /\ fPtr = [pos |-> 0, fail |-> FALSE]
    /\ lengthofPackage = 0 /\ toc = 0 /\ tocLen = 0 /\ pyver = 0
    /\ overlaySize = 0 /\ overlayPos = 0
    /\ tableOfContentsPos = 0 /\ tableOfContentsSize = 0
    /\ tocList = <<>>
    /\ parsedLen = 0
    /\ counter = 0
    /\ parseRun = 0
    /\ listed = <<>>
    /\ numThreads = 0
    /\ tasks = <<>>
    /\ stop = FALSE
    /\ enqueued = 0
    /\ wpc = [w \in Workers |-> "none"]
    /\ wtask = [w \in Workers |-> 0]
    /\ wdata = [w \in Workers |-> <<>>]
    /\ mtx = 0
    /\ outputs = <<>>
    /\ dirs = {}
    /\ result = <<>>
    /\ streamAtStart = [pos |-> 0, fail |-> FALSE]

\* the command-line program, started with -i or -u
InitDecode(inputs, envs) ==
    /\ InitArchive(inputs, envs)
    /\ command \in {"-i", "-u"}
    /\ m_selectedFile = <<>>

\* the error is printed and parseArgs carries on with the command
StopIgnored(why) == pc' = "command" /\ status' = why

\* the run ends: parseArgs returns, or an exception leaves it
Stop(why) == pc' = "exit" /\ status' = why

(***************************************************************************)
(* open and checkFile.                                                     *)
(***************************************************************************)
Open ==
    /\ pc = "open"
    /\ fileSize' = Len(file)
    /\ fPtr' = [pos |-> 0, fail |-> FALSE]
    /\ pc' = "isFileValid"
    /\ UNCHANGED <<inputVars, poolVars, status, cookiePos, endPos, pyinstVer, headerVars,
                   layoutVars, tocVars>>

IsFileValid ==
    /\ pc = "isFileValid"
    /\ IF fileSize < Len(MAGIC)
       THEN Stop("FileTooShort") /\ UNCHANGED <<endPos, cookiePos>>
       ELSE /\ pc' = "findCookie"
            /\ endPos' = fileSize
            /\ cookiePos' = -1
            /\ UNCHANGED status
    /\ UNCHANGED <<inputVars, poolVars, fileSize, pyinstVer, fPtr, headerVars, layoutVars, tocVars>>

\* one pass of the while loop of findCookie
FindCookie ==
    /\ pc = "findCookie"
    /\ IF endPos < Len(MAGIC)
       THEN Stop("SignatureNotFound") /\ UNCHANGED <<endPos, cookiePos, fPtr>>
       ELSE LET startPos == ChunkStart(endPos, searchChunkSize)
                chunkSize == endPos - startPos
                i == ScanBack(file, startPos, chunkSize, chunkSize)
                s == AfterRead(file, Seekg(fPtr, startPos), chunkSize)
            IN  /\ fPtr' = s
                /\ IF i >= 0
                   THEN /\ cookiePos' = startPos + i
                        /\ pc' = "determineVersion"
                        /\ UNCHANGED <<endPos, status>>
                   ELSE /\ endPos' = startPos + Len(MAGIC) - 1
                        /\ UNCHANGED cookiePos
                        /\ IF startPos = 0
                           THEN Stop("SignatureNotFound")
                           ELSE UNCHANGED <<pc, status>>
    /\ UNCHANGED <<inputVars, poolVars, fileSize, pyinstVer, headerVars, layoutVars, tocVars>>

\* a short read throws out of checkFile, which parseArgs does not catch
DeterminePyinstallerVersion ==
    /\ pc = "determineVersion"
    /\ LET s == ProbeStream(fPtr, cookiePos)
           buffer64 == ReadBytes(file, s, VersionProbeSize)
       IN  /\ fPtr' = AfterRead(file, s, VersionProbeSize)
           /\ IF Gcount(file, s, VersionProbeSize) < VersionProbeSize
              THEN Stop("IncompleteVersionRead") /\ UNCHANGED pyinstVer
              ELSE /\ pyinstVer' = IF ProbeHasPython(buffer64) THEN 21 ELSE 20
                   /\ pc' = "readArchiveData"
                   /\ UNCHANGED status
    /\ UNCHANGED <<inputVars, poolVars, fileSize, cookiePos, endPos, headerVars, layoutVars, tocVars>>

(***************************************************************************)
(* getCArchiveInfo: readArchiveData, calculateOverlayInfo, parseTOC.  An   *)
(* exception is caught by getCArchiveInfo, which returns false, and        *)
(* parseArgs returns.                                                      *)
(***************************************************************************)
ReadArchiveData ==
    /\ pc = "readArchiveData"
    /\ LET cookieSize == CookieSize(pyinstVer)
           s == Seekg(fPtr, cookiePos)
           buffer == ReadBytes(file, s, cookieSize)
       IN  /\ fPtr' = AfterRead(file, s, cookieSize)
           /\ IF Gcount(file, s, cookieSize) < cookieSize
              THEN Stop("IncompleteHeaderRead") /\ UNCHANGED headerVars
              ELSE IF SubSeq(buffer, 1, Len(MAGIC)) # MAGIC
              THEN Stop("InvalidMagic") /\ UNCHANGED headerVars
              ELSE /\ lengthofPackage' = Field(buffer, 8)
                   /\ toc' = Field(buffer, 12)
                   /\ tocLen' = Field(buffer, 16)
                   /\ pyver' = Field(buffer, 20)
                   /\ pc' = "calculateOverlayInfo"
                   /\ UNCHANGED status
    /\ UNCHANGED <<inputVars, poolVars, cookieVars, layoutVars, tocVars>>

\* calculateOverlayInfo without the bounds test and the fallback, as the
\* earlier src/src/Pyinstaller.cpp has it
CalculateOverlayInfoUnchecked ==
    /\ pc = "calculateOverlayInfo"
    /\ overlaySize' = OverlaySize(fileSize, cookiePos, pyinstVer, lengthofPackage)
    /\ overlayPos' = OverlayPos(fileSize, cookiePos, pyinstVer, lengthofPackage)
    /\ tableOfContentsPos' = OverlayPos(fileSize, cookiePos, pyinstVer, lengthofPackage) + toc
    /\ tableOfContentsSize' = tocLen
    /\ pc' = "parseTOC" /\ parseRun' = 1
    /\ UNCHANGED <<inputVars, poolVars, status, cookieVars, fPtr, headerVars, tocList,
                   parsedLen, counter, listed>>

\* the header fields of the input files are below 2^31, so the conversion of
\* lengthofPackage, toc and tocLen to uint64_t keeps the representative
CalculateOverlayInfo ==
    /\ pc = "calculateOverlayInfo"
    /\ LET ovPos == OverlayPos(fileSize, cookiePos, pyinstVer, lengthofPackage)
           first == ovPos + toc
           alt == AltTableOfContentsPos(cookiePos, pyinstVer, toc)
       IN  /\ overlaySize' = OverlaySize(fileSize, cookiePos, pyinstVer, lengthofPackage)
           /\ overlayPos' = ovPos
           /\ tableOfContentsSize' = tocLen
           /\ IF TocOutOfBounds(first, tocLen, fileSize)
              THEN /\ tableOfContentsPos' = alt
                   /\ IF TocOutOfBounds(alt, tocLen, fileSize)
                      THEN Stop("TOCBoundsInvalid") /\ UNCHANGED parseRun
                      ELSE pc' = "parseTOC" /\ parseRun' = 1 /\ UNCHANGED status
              ELSE /\ tableOfContentsPos' = first
                   /\ pc' = "parseTOC" /\ parseRun' = 1 /\ UNCHANGED status
    /\ UNCHANGED <<inputVars, poolVars, cookieVars, fPtr, headerVars, tocList, parsedLen,
                   counter, listed>>

\* the start of parseTOC, up to its while loop
ParseTOCBegin ==
    /\ pc = "parseTOC"
    /\ fPtr' = Seekg(fPtr, tableOfContentsPos)
    /\ tocList' = <<>>
    /\ parsedLen' = 0
    /\ pc' = "parseLoop"
    /\ UNCHANGED <<inputVars, poolVars, status, cookieVars, headerVars, layoutVars, counter,
                   parseRun, listed>>

\* the size test without its lower bound
RejectsSizeAboveOnly(entrySize, tocSize) == UGreater(entrySize, tocSize)

\* readEntrySize: entrySize < sizeofEntry() || entrySize > tableOfContentsSize
RejectsSize(entrySize, tocSize) ==
    ULess(entrySize, sizeofEntry) \/ UGreater(entrySize, tocSize)

\* parseTOC returns: into getCArchiveInfo (run 1) or into the "-u" branch (run 2)
ParseReturn(list) ==
    /\ pc' = IF parseRun = 1 THEN "command" ELSE "extract"
    /\ listed' = IF parseRun = 1 THEN list ELSE listed

\* one pass of the while loop of parseTOC
ParseTOCEntry ==
    /\ pc = "parseLoop"
    /\ ULess(parsedLen, tableOfContentsSize)
    /\ LET s0 == fPtr
           entrySize == Field(ReadBytes(file, s0, 4), 0)
           s1 == AfterRead(file, s0, 4)
           fields == ReadBytes(file, s1, 14)
           s2 == AfterRead(file, s1, 14)
           nameLen == entrySize - sizeofEntry
           nameBuffer == ReadBytes(file, s2, nameLen)
           s3 == AfterRead(file, s2, nameLen)
       IN  IF Gcount(file, s0, 4) < 4
           THEN \* readEntrySize fails: break
                /\ fPtr' = s1
                /\ ParseReturn(tocList)
                /\ UNCHANGED <<tocList, parsedLen, counter>>
           ELSE IF RejectsSize(entrySize, tableOfContentsSize)
           THEN \* readEntrySize rejects the size: break
                /\ fPtr' = s1
                /\ ParseReturn(tocList)
                /\ UNCHANGED <<tocList, parsedLen, counter>>
           ELSE IF Gcount(file, s1, 14) < 14
           THEN \* readEntryFields throws: parsedLen += entrySize; continue
                /\ fPtr' = s2
                /\ parsedLen' = parsedLen + entrySize
                /\ UNCHANGED <<tocList, counter, pc, listed>>
           ELSE IF Gcount(file, s2, nameLen) < nameLen
           THEN /\ fPtr' = s3
                /\ parsedLen' = parsedLen + entrySize
                /\ UNCHANGED <<tocList, counter, pc, listed>>
           ELSE /\ fPtr' = s3
                /\ tocList' = Append(tocList,
                       addTOCEntry(overlayPos,
                                   Field(fields, 0), Field(fields, 4), Field(fields, 8),
                                   fields[13], fields[14],
                                   decodeEntryName(nameBuffer, parsedLen, counter)))
                /\ counter' = CounterAfter(nameBuffer, counter)
                /\ parsedLen' = parsedLen + entrySize
                /\ UNCHANGED <<pc, listed>>
    /\ UNCHANGED <<inputVars, poolVars, status, cookieVars, headerVars, layoutVars, parseRun>>

\* the loop condition fails: parseTOC returns
ParseTOCEnd ==
    /\ pc = "parseLoop"
    /\ ~ULess(parsedLen, tableOfContentsSize)
    /\ ParseReturn(tocList)
    /\ UNCHANGED <<inputVars, poolVars, status, cookieVars, fPtr, headerVars, layoutVars,
                   tocList, parsedLen, counter, parseRun>>

(***************************************************************************)
(* parseArgs after getCArchiveInfo returned true.                          *)
(***************************************************************************)
DisplayInfo ==
    /\ pc = "command"
    /\ command = "-i"
    /\ pc' = "exit"
    /\ status' = "ok"
    /\ UNCHANGED <<inputVars, poolVars, cookieVars, fPtr, headerVars, layoutVars, tocVars>>

\* "-u": archive.parseTOC() is called again before the extraction
ReparseTOC ==
    /\ pc = "command"
    /\ command = "-u"
    /\ pc' = "parseTOC"
    /\ parseRun' = 2
    /\ UNCHANGED <<inputVars, poolVars, status, cookieVars, fPtr, headerVars, layoutVars,
                   tocList, parsedLen, counter, listed>>

vars == <<decodeVars, poolVars>>


(***************************************************************************)
(* The "-u" branch: MultiThreadedFileExtract, the ThreadPool and the tasks *)
(* that run decompressAndExtractFile.                                      *)
(***************************************************************************)
decodeState == <<inputVars, cookieVars, headerVars, layoutVars, tocVars>>

\* compressedData after resize(n) and fPtr.read(compressedData.data(), n)
CompressedData(f, s, e) ==
    LET got == ReadBytes(f, Seekg(s, e.position), e.cmprsdDataSize)
    IN  got \o Repeat(0, e.cmprsdDataSize - Len(got))

\* inflate(&strm, Z_FINISH) on a stream <<ZHeader, n, d1, ..., dn>> with
\* availOut bytes of zero-filled output buffer
inflate(in, availOut) ==
    IF Len(in) >= 1 /\ in[1] # ZHeader
    THEN [result |-> "Z_DATA_ERROR", out |-> <<>>]
    ELSE IF Len(in) < 2 \/ Len(in) - 2 < in[2] \/ availOut < in[2]
    THEN [result |-> "Z_BUF_ERROR", out |-> <<>>]
    ELSE [result |-> "Z_STREAM_END",
          out |-> SubSeq(in, 3, 2 + in[2]) \o Repeat(0, availOut - in[2])]

\* decompressedData and the zlib result; a stored entry moves its bytes over
DecompressedData(e, compressedData) ==
    IF e.cmprsFlag # 0
    THEN inflate(compressedData, e.uncmprsdDataSize)
    ELSE [result |-> "Z_STREAM_END", out |-> compressedData]

\* a file opened with truncation, then written from offset 0
WriteFromStart(old, data) == data \o SubSeq(old, Len(data) + 1, Len(old))

\* the requested count taken as it is, 0 standing for all cores
PoolSizeUnclamped(cores, max) == IF cores = 0 THEN max ELSE cores

\* numThreads as MultiThreadedFileExtract settles it
PoolSize(cores, max) ==
    LET n == IF cores = 0 THEN max ELSE IF cores > max THEN max ELSE cores
    IN  IF n = 0 THEN 1 ELSE n

\* the pool is constructed: its workers start in their wait
MultiThreadedFileExtract ==
    /\ pc = "extract"
    /\ command = "-u"
    /\ numThreads' = PoolSize(numCores, maxCores)
    /\ wpc' = [w \in Workers |->
                 IF w <= PoolSize(numCores, maxCores) THEN "wait" ELSE "none"]
    /\ tasks' = <<>>
    /\ stop' = FALSE
    /\ enqueued' = 0
    /\ result' = [i \in 1..Len(tocList) |-> "pending"]
    /\ streamAtStart' = fPtr
    /\ pc' = "enqueue"
    /\ UNCHANGED <<decodeState, envVars, status, fPtr, wtask, wdata, mtx, outputs, dirs>>

\* one pass of the for loop over tocEntries: pool.enqueue
Enqueue ==
    /\ pc = "enqueue"
    /\ enqueued < Len(tocList)
    /\ tasks' = Append(tasks, enqueued + 1)
    /\ enqueued' = enqueued + 1
    /\ UNCHANGED <<decodeState, envVars, pc, status, fPtr, numThreads, stop, wpc,
                   wtask, wdata, mtx, outputs, dirs, result, streamAtStart>>

\* the pool goes out of scope: ~ThreadPool sets stop and notifies
DestroyPool ==
    /\ pc = "enqueue"
    /\ enqueued = Len(tocList)
    /\ stop' = TRUE
    /\ pc' = "join"
    /\ UNCHANGED <<decodeState, envVars, status, fPtr, numThreads, tasks, enqueued,
                   wpc, wtask, wdata, mtx, outputs, dirs, result, streamAtStart>>

\* ~ThreadPool has joined every worker; parseArgs returns
JoinWorkers ==
    /\ pc = "join"
    /\ \A w \in Workers : wpc[w] \in {"none", "exited"}
    /\ pc' = "exit"
    /\ status' = "ok"
    /\ UNCHANGED <<decodeState, poolVars, fPtr>>

\* the worker loop: the wait is over because a task is queued
\* a worker that takes the task enqueued last
TakeTaskLast(w) ==
    /\ wpc[w] = "wait"
    /\ tasks # <<>>
    /\ wtask' = [wtask EXCEPT ![w] = tasks[Len(tasks)]]
    /\ tasks' = SubSeq(tasks, 1, Len(tasks) - 1)
    /\ wpc' = [wpc EXCEPT ![w] = "lock"]
    /\ UNCHANGED <<decodeState, envVars, pc, status, fPtr, numThreads, stop, enqueued,
                   wdata, mtx, outputs, dirs, result, streamAtStart>>

TakeTask(w) ==
    /\ wpc[w] = "wait"
    /\ tasks # <<>>
    /\ wtask' = [wtask EXCEPT ![w] = Head(tasks)]
    /\ tasks' = Tail(tasks)
    /\ wpc' = [wpc EXCEPT ![w] = "lock"]
    /\ UNCHANGED <<decodeState, envVars, pc, status, fPtr, numThreads, stop, enqueued,
                   wdata, mtx, outputs, dirs, result, streamAtStart>>

\* a worker that returns as soon as stop is set, whatever is still queued
WorkerExitOnStop(w) ==
    /\ wpc[w] = "wait"
    /\ stop
    /\ wpc' = [wpc EXCEPT ![w] = "exited"]
    /\ UNCHANGED <<decodeState, envVars, pc, status, fPtr, numThreads, tasks, stop,
                   enqueued, wtask, wdata, mtx, outputs, dirs, result, streamAtStart>>

\* the worker loop: stop is set and the queue is empty
WorkerExit(w) ==
    /\ wpc[w] = "wait"
    /\ stop
    /\ tasks = <<>>
    /\ wpc' = [wpc EXCEPT ![w] = "exited"]
    /\ UNCHANGED <<decodeState, envVars, pc, status, fPtr, numThreads, tasks, stop,
                   enqueued, wtask, wdata, mtx, outputs, dirs, result, streamAtStart>>

\* a lock that is taken without waiting for its holder
LockFileNoWait(w) ==
    /\ wpc[w] = "lock"
    /\ mtx' = w
    /\ wpc' = [wpc EXCEPT ![w] = "seek"]
    /\ UNCHANGED <<decodeState, envVars, pc, status, fPtr, numThreads, tasks, stop,
                   enqueued, wtask, wdata, outputs, dirs, result, streamAtStart>>

\* std::lock_guard<std::mutex> lock(mtx)
LockFile(w) ==
    /\ wpc[w] = "lock"
    /\ mtx = 0
    /\ mtx' = w
    /\ wpc' = [wpc EXCEPT ![w] = "seek"]
    /\ UNCHANGED <<decodeState, envVars, pc, status, fPtr, numThreads, tasks, stop,
                   enqueued, wtask, wdata, outputs, dirs, result, streamAtStart>>

\* fPtr.seekg(tocEntry.position, std::ios::beg)
SeekEntry(w) ==
    /\ wpc[w] = "seek"
    /\ fPtr' = Seekg(fPtr, tocList[wtask[w]].position)
    /\ wpc' = [wpc EXCEPT ![w] = "read"]
    /\ UNCHANGED <<decodeState, envVars, pc, status, numThreads, tasks, stop, enqueued,
                   wtask, wdata, mtx, outputs, dirs, result, streamAtStart>>

\* resize, read, and the end of the lock's scope
ReadCompressed(w) ==
    /\ wpc[w] = "read"
    /\ LET e == tocList[wtask[w]]
           got == ReadBytes(file, fPtr, e.cmprsdDataSize)
       IN  /\ wdata' = [wdata EXCEPT ![w] = got \o Repeat(0, e.cmprsdDataSize - Len(got))]
           /\ fPtr' = AfterRead(file, fPtr, e.cmprsdDataSize)
    /\ mtx' = 0
    /\ wpc' = [wpc EXCEPT ![w] = "inflate"]
    /\ UNCHANGED <<decodeState, envVars, pc, status, numThreads, tasks, stop,
                   enqueued, wtask, outputs, dirs, result, streamAtStart>>

\* the "Decompress Data" block; a result other than Z_STREAM_END ends the task
DecompressThen(w, next) ==
    /\ wpc[w] = "inflate"
    /\ LET r == DecompressedData(tocList[wtask[w]], wdata[w])
       IN  IF r.result # "Z_STREAM_END"
           THEN /\ result' = [result EXCEPT ![wtask[w]] = "DecompressionFailed"]
                /\ wdata' = [wdata EXCEPT ![w] = <<>>]
                /\ wpc' = [wpc EXCEPT ![w] = next]
           ELSE /\ wdata' = [wdata EXCEPT ![w] = r.out]
                /\ wpc' = [wpc EXCEPT ![w] = "open"]
                /\ UNCHANGED result
    /\ UNCHANGED <<decodeState, envVars, pc, status, fPtr, numThreads, tasks, stop,
                   enqueued, wtask, mtx, outputs, dirs, streamAtStart>>

\* the directories create_directories(outputFilePath.parent_path()) makes
Ancestors(name) == {SubSeq(name, 1, k - 1) : k \in {j \in 1..Len(name) : name[j] = Slash}}

\* create_directories throws when a component of the path is a regular file
CreateDirectoriesFails(name, files) == \E a \in Ancestors(name) : a \in DOMAIN files

\* create_directories, then std::ofstream outFile(outputFilePath, std::ios::binary),
\* which truncates the file.  An exception of create_directories leaves the
\* task and the worker's thread function: std::terminate ends the process.
OpenOutputThen(w, next) ==
    /\ wpc[w] = "open"
    /\ LET name == tocList[wtask[w]].name
       IN  IF CreateDirectoriesFails(name, outputs)
           THEN /\ pc' = "exit"
                /\ status' = "Terminated"
                /\ wpc' = [v \in Workers |-> IF wpc[v] = "none" THEN "none" ELSE "killed"]
                /\ UNCHANGED <<result, wdata, outputs, dirs>>
           ELSE IF name \in unwritable \/ name \in dirs
           THEN /\ result' = [result EXCEPT ![wtask[w]] = "OpenFailed"]
                /\ wdata' = [wdata EXCEPT ![w] = <<>>]
                /\ wpc' = [wpc EXCEPT ![w] = next]
                /\ dirs' = dirs \cup Ancestors(name)
                /\ UNCHANGED <<outputs, pc, status>>
           ELSE /\ outputs' = (name :> <<>>) @@ outputs
                /\ dirs' = dirs \cup Ancestors(name)
                /\ wpc' = [wpc EXCEPT ![w] = "write"]
                /\ UNCHANGED <<result, wdata, pc, status>>
    /\ UNCHANGED <<decodeState, envVars, fPtr, numThreads, tasks, stop,
                   enqueued, wtask, mtx, streamAtStart>>

\* outFile.write, the close at the end of the scope, and the "Extracted" line
WriteOutputThen(w, next) ==
    /\ wpc[w] = "write"
    /\ LET name == tocList[wtask[w]].name
       IN  outputs' = [outputs EXCEPT ![name] = WriteFromStart(@, wdata[w])]
    /\ result' = [result EXCEPT ![wtask[w]] = "Extracted"]
    /\ wdata' = [wdata EXCEPT ![w] = <<>>]
    /\ wpc' = [wpc EXCEPT ![w] = next]
    /\ UNCHANGED <<decodeState, envVars, pc, status, fPtr, numThreads, tasks, stop,
                   enqueued, wtask, mtx, dirs, streamAtStart>>

\* in the pool whose worker loop waits and takes in one step, the end of a
\* task leads back to the wait
Decompress(w) == DecompressThen(w, "wait")
OpenOutput(w) == OpenOutputThen(w, "wait")
WriteOutput(w) == WriteOutputThen(w, "wait")

NextExtract ==
    \/ MultiThreadedFileExtract
    \/ Enqueue
    \/ DestroyPool
    \/ JoinWorkers
    \/ \E w \in Workers : TakeTask(w)
    \/ \E w \in Workers : WorkerExit(w)
    \/ \E w \in Workers : LockFile(w)
    \/ \E w \in Workers : SeekEntry(w)
    \/ \E w \in Workers : ReadCompressed(w)
    \/ \E w \in Workers : Decompress(w)
    \/ \E w \in Workers : OpenOutput(w)
    \/ \E w \in Workers : WriteOutput(w)

NextDecode ==
    \/ Open
    \/ IsFileValid
    \/ FindCookie
    \/ DeterminePyinstallerVersion
    \/ ReadArchiveData
    \/ CalculateOverlayInfo
    \/ ParseTOCBegin
    \/ ParseTOCEntry
    \/ ParseTOCEnd
    \/ DisplayInfo
    \/ ReparseTOC

\* the decoder alone, on every input file
NoEnv == {[cores |-> 0, max |-> 1, unwritable |-> {}]}
Init == InitDecode(Inputs, NoEnv)

Spec == Init /\ [][NextDecode]_vars

\* the whole run, on the archives below
ExtractRecords == {EncodeEntry(e) : e \in {ERaw, EMod, EBig, ESmall, EDup, EPast, EBad}}
ExtractTocs == {Concat(q) : q \in SeqsUpTo(ExtractRecords, MaxEntries)}
ExtractInputs ==
    {[file |-> f, chunk |-> SearchChunkSize] : f \in UNION {ArchivesOf(t) : t \in ExtractTocs}}
ModuleFile == <<109, 46, 112, 121, 99>>     \* "m.pyc"

\* every core is used, every output path can be opened; the archives with a
\* byte in front of the payload region
PoolEnv == {[cores |-> 0, max |-> MaxWorkers, unwritable |-> {}]}
PoolInputs ==
    {[file |-> Archive(1, t, Len(Payload) + Len(t) + PYINST20_COOKIE_SIZE,
                       Len(Payload), Len(t), TailV0),
      chunk |-> SearchChunkSize] : t \in ExtractTocs}

\* one worker, asked for or because the machine has one core
SingleEnvs ==
    {[cores |-> 1, max |-> MaxWorkers, unwritable |-> {}],
     [cores |-> MaxWorkers + 1, max |-> 1, unwritable |-> {}],
     [cores |-> 1, max |-> 1, unwritable |-> {ModuleFile}]}

\* every core is used and "m.pyc" cannot be opened
UnwritableEnv == {[cores |-> MaxWorkers + 1, max |-> MaxWorkers, unwritable |-> {ModuleFile}]}
UnwritableTocs ==
    {Concat(q) : q \in SeqsUpTo({EncodeEntry(e) : e \in {ERaw, EMod, EPast}}, MaxEntries)}
UnwritableInputs ==
    {[file |-> Archive(0, t, Len(Payload) + Len(t) + PYINST21_COOKIE_SIZE,
                       Len(Payload), Len(t), TagV1),
      chunk |-> SearchChunkSize] : t \in UnwritableTocs}

\* names of which one is a directory of the other
NestTocs ==
    {Concat(q) : q \in SeqsUpTo({EncodeEntry(e) : e \in {EFile, ENest, EMod}}, MaxEntries)}
NestInputs ==
    {[file |-> Archive(0, t, Len(Payload) + Len(t) + PYINST21_COOKIE_SIZE,
                       Len(Payload), Len(t), TagV1),
      chunk |-> SearchChunkSize] : t \in NestTocs}

\* a record that declares size bytes and holds the 18 fixed ones only
TruncRecord(size) == BE32(size) \o BE32(0) \o BE32(3) \o BE32(3) \o <<0, 120>>

\* TOCs whose scan stops before the end of the region: well-formed records
\* without a dot in the name, then a record that stops the scan
PrefixSeqs == SeqsUpTo({EFile, EMod}, MaxEntries) \ {<<>>}
StoppedArchive(tocBytes, len) ==
    Archive(1, tocBytes, Len(Payload) + Len(tocBytes) + PYINST20_COOKIE_SIZE,
            Len(Payload), len, TailV0)

\* the size field of the last record is below 18
ShortStopped(q) ==
    StoppedArchive(EncodeAll(q) \o ShortRecord, Len(EncodeAll(q)) + Len(ShortRecord))

\* the TOC region reaches the end of the file and the name of the last
\* record would lie behind it
RegionToEnd(q) ==
    Len(EncodeAll(q)) + sizeofEntry + PYINST20_COOKIE_SIZE + VersionProbeSize
TruncStopped(q) ==
    StoppedArchive(EncodeAll(q) \o TruncRecord(RegionToEnd(q)), RegionToEnd(q))

StoppedInputs ==
    {[file |-> f, chunk |-> SearchChunkSize] :
        f \in {ShortStopped(q) : q \in PrefixSeqs} \cup {TruncStopped(q) : q \in PrefixSeqs}}

\* files the decode phase gives up on
FatalInputs ==
    {[file |-> <<0>>, chunk |-> SearchChunkSize],
     [file |-> Repeat(0, 10), chunk |-> SearchChunkSize],
     [file |-> Archive(0, EncodeEntry(ERaw), 200, 300, 300, TagV1), chunk |-> SearchChunkSize],
     [file |-> FalseMatchFile, chunk |-> Len(MAGIC)]}

InitExtract ==
    \/ InitDecode(PoolInputs, PoolEnv)
    \/ InitDecode(ExtractInputs, SingleEnvs)
    \/ InitDecode(UnwritableInputs, UnwritableEnv)
    \/ InitDecode(NestInputs, PoolEnv \cup SingleEnvs)
    \/ InitDecode(StoppedInputs, PoolEnv)
    \/ InitDecode(FatalInputs, NoEnv)

Next == NextDecode \/ NextExtract

SpecExtract == InitExtract /\ [][Next]_vars

\* the whole run under a scheduler that lets every thread that can take a
\* step take one in the end, and with tasks that terminate; on a few archives
DrainTocs ==
    {Concat(q) : q \in SeqsUpTo({EncodeEntry(e) : e \in {EMod, EBig, EPast}}, MaxEntries)}
DrainInputs ==
    {[file |-> Archive(0, t, Len(Payload) + Len(t) + PYINST21_COOKIE_SIZE,
                       Len(Payload), Len(t), TagV1),
      chunk |-> SearchChunkSize] : t \in DrainTocs}

\* every requested count with every core count, on one archive of one entry
GridEnvs ==
    {[cores |-> n, max |-> c, unwritable |-> {}] : n \in 0..(MaxWorkers + 1), c \in 0..MaxWorkers}
GridInputs ==
    {[file |-> Archive(0, EncodeEntry(EMod),
                       Len(Payload) + Len(EncodeEntry(EMod)) + PYINST21_COOKIE_SIZE,
                       Len(Payload), Len(EncodeEntry(EMod)), TagV1),
      chunk |-> SearchChunkSize]}

InitDrain ==
    \/ InitDecode(DrainInputs, PoolEnv \cup SingleEnvs)
    \/ InitDecode(GridInputs, GridEnvs)

SpecDrain == InitDrain /\ [][Next]_vars /\ WF_vars(NextExtract)

(***************************************************************************)
(* The graphical front end: ExtractionWorker::startExtraction.  Its        *)
(* archive object is the PyInstArchive of src/pyinstarchive.cpp, whose     *)
(* open, checkFile, getCArchiveInfo and parseTOC are the functions         *)
(* modelled above; decompressAndExtractFile is called on the worker's own  *)
(* thread, one entry after the other.                                      *)
(***************************************************************************)
\* archive.parseTOC() after getCArchiveInfo returned true
WorkerParseTOC ==
    /\ pc = "command"
    /\ command = "gui"
    /\ pc' = "parseTOC"
    /\ parseRun' = 2
    /\ UNCHANGED <<inputVars, poolVars, status, cookieVars, fPtr, headerVars, layoutVars,
                   tocList, parsedLen, counter, listed>>

\* the for loop over entries with its break: the first entry named selected
RECURSIVE FirstNamed(_, _, _)
FirstNamed(entries, selected, k) ==
    IF k > Len(entries) THEN <<>>
    ELSE IF entries[k].name = selected THEN <<entries[k]>>
    ELSE FirstNamed(entries, selected, k + 1)

\* toExtract as startExtraction fills it
SelectEntries ==
    /\ pc = "extract"
    /\ command = "gui"
    /\ toExtract' = IF m_selectedFile # <<>>
                    THEN FirstNamed(tocList, m_selectedFile, 1)
                    ELSE tocList
    /\ extractIndex' = 0
    /\ pc' = "extractLoop"
    /\ UNCHANGED <<file, searchChunkSize, command, syncVars, m_selectedFile, signals, poolVars,
                   status, cookieVars, fPtr, headerVars, layoutVars, tocVars>>

\* emit progress((i + 1) * 100 / total)
Progress(i, total) == [signal |-> "progress", percent |-> ((i + 1) * 100) \div total]

\* one pass of the for loop: decompressAndExtractFile(toExtract[i], ...) and
\* the progress signal.  An exception of create_directories leaves the loop
\* for the catch block.
ExtractEntry ==
    /\ pc = "extractLoop"
    /\ extractIndex < Len(toExtract)
    /\ LET e == toExtract[extractIndex + 1]
           r == DecompressedData(e, CompressedData(file, fPtr, e))
           done == /\ signals' = Append(signals, Progress(extractIndex, Len(toExtract)))
                   /\ extractIndex' = extractIndex + 1
                   /\ UNCHANGED <<pc, status>>
       IN  /\ fPtr' = AfterRead(file, Seekg(fPtr, e.position), e.cmprsdDataSize)
           /\ IF r.result # "Z_STREAM_END"
              THEN done /\ UNCHANGED <<outputs, dirs>>
              ELSE IF CreateDirectoriesFails(e.name, outputs)
              THEN /\ pc' = "catch"
                   /\ status' = "Exception"
                   /\ UNCHANGED <<signals, extractIndex, outputs, dirs>>
              ELSE IF e.name \in unwritable \/ e.name \in dirs
              THEN done /\ dirs' = dirs \cup Ancestors(e.name) /\ UNCHANGED outputs
              ELSE /\ done
                   /\ outputs' = (e.name :> r.out) @@ outputs
                   /\ dirs' = dirs \cup Ancestors(e.name)
    /\ UNCHANGED <<file, searchChunkSize, command, syncVars, m_selectedFile, toExtract, envVars,
                   numThreads, tasks, stop, enqueued, wpc, wtask, wdata, mtx, result,
                   streamAtStart, cookieVars, headerVars, layoutVars, tocVars>>

\* the loop is over: emit finished()
EmitFinished ==
    /\ pc = "extractLoop"
    /\ extractIndex = Len(toExtract)
    /\ signals' = Append(signals, [signal |-> "finished"])
    /\ pc' = "returned"
    /\ status' = "ok"
    /\ UNCHANGED <<file, searchChunkSize, command, syncVars, m_selectedFile, toExtract, extractIndex,
                   poolVars, cookieVars, fPtr, headerVars, layoutVars, tocVars>>

\* emit errorOccurred(...): after open, checkFile or getCArchiveInfo
\* returned false, and in the catch block
EmitErrorOccurred ==
    /\ pc \in {"exit", "catch"}
    /\ command = "gui"
    /\ signals' = Append(signals, [signal |-> "errorOccurred"])
    /\ pc' = "returned"
    /\ UNCHANGED <<file, searchChunkSize, command, syncVars, m_selectedFile, toExtract, extractIndex,
                   poolVars, status, cookieVars, fPtr, headerVars, layoutVars, tocVars>>

NextWorker ==
    \/ Open
    \/ IsFileValid
    \/ FindCookie
    \/ DeterminePyinstallerVersion
    \/ ReadArchiveData
    \/ CalculateOverlayInfo
    \/ ParseTOCBegin
    \/ ParseTOCEntry
    \/ ParseTOCEnd
    \/ WorkerParseTOC
    \/ SelectEntries
    \/ ExtractEntry
    \/ EmitFinished
    \/ EmitErrorOccurred

\* archives of up to MaxSelected entries, with equal names and with names of
\* which one is a directory of the other
MaxSelected == MaxEntries + 1
WorkerSeqs == SeqsUpTo({ERaw, EDup, EFile, ENest, EMod}, MaxSelected)
WorkerInputs ==
    {[file |-> Archive(0, EncodeAll(q), Len(Payload) + Len(EncodeAll(q)) + PYINST21_COOKIE_SIZE,
                       Len(Payload), Len(EncodeAll(q)), TagV1),
      chunk |-> SearchChunkSize] : q \in WorkerSeqs}

\* the names the user can pick in the list, and one that is not in it
Selectors ==
    {<<>>, <<97, 95, 112, 121>>, <<100>>, <<100, 47, 102>>, ModuleFile, <<122>>}

InitWorker ==
    /\ InitArchive(WorkerInputs \cup StoppedInputs \cup FatalInputs, NoEnv)
    /\ command = "gui"
    /\ m_selectedFile \in Selectors

SpecWorker == InitWorker /\ [][NextWorker]_vars

(***************************************************************************)
(* The pool with its locks: every lock, unlock, wait and notify of         *)
(* ThreadPool.cpp and of decompressAndExtractFile is a step of its own.    *)
(* A worker is at "acquire" before it locks queueMutex, at "check" while   *)
(* it holds it, at "blocked" inside condition.wait, at "log" before it     *)
(* locks printMtx and at "printing" while it holds it.  Spurious wake-ups  *)
(* are left out: they only add wake-ups, after which the predicate is      *)
(* tested again under the lock.                                            *)
(***************************************************************************)
MainThread == MaxWorkers + 1
archiveState ==
    <<file, searchChunkSize, command, workerVars, cookieVars, headerVars, layoutVars,
      tocVars>>

\* ThreadPool pool(numThreads): the workers start their loop
ConstructPool ==
    /\ pc = "extract"
    /\ command = "-u"
    /\ numThreads' = PoolSize(numCores, maxCores)
    /\ wpc' = [w \in Workers |->
                 IF w <= PoolSize(numCores, maxCores) THEN "acquire" ELSE "none"]
    /\ tasks' = <<>>
    /\ stop' = FALSE
    /\ enqueued' = 0
    /\ result' = [i \in 1..Len(tocList) |-> "pending"]
    /\ streamAtStart' = fPtr
    /\ pc' = "enqueueLock"
    /\ UNCHANGED <<archiveState, syncVars, envVars, status, fPtr, wtask, wdata, mtx,
                   outputs, dirs>>

\* enqueue: std::unique_lock<std::mutex> lock(queueMutex)
EnqueueLock ==
    /\ pc = "enqueueLock"
    /\ enqueued < Len(tocList)
    /\ queueMutex = 0
    /\ queueMutex' = MainThread
    /\ pc' = "enqueuePush"
    /\ UNCHANGED <<archiveState, printMtx, poolVars, status, fPtr>>

\* enqueue: tasks.emplace and the end of the lock's scope
EnqueuePush ==
    /\ pc = "enqueuePush"
    /\ tasks' = Append(tasks, enqueued + 1)
    /\ enqueued' = enqueued + 1
    /\ queueMutex' = 0
    /\ pc' = "notifyOne"
    /\ UNCHANGED <<archiveState, printMtx, envVars, status, fPtr, numThreads, stop, wpc,
                   wtask, wdata, mtx, outputs, dirs, result, streamAtStart>>

\* enqueue: condition.notify_one() wakes one of the blocked workers, if any
NotifyOne ==
    /\ pc = "notifyOne"
    /\ IF \E w \in Workers : wpc[w] = "blocked"
       THEN \E w \in Workers :
                /\ wpc[w] = "blocked"
                /\ wpc' = [wpc EXCEPT ![w] = "acquire"]
       ELSE UNCHANGED wpc
    /\ pc' = "enqueueLock"
    /\ UNCHANGED <<archiveState, syncVars, envVars, status, fPtr, numThreads, tasks, stop,
                   enqueued, wtask, wdata, mtx, outputs, dirs, result, streamAtStart>>

\* ~ThreadPool: std::unique_lock<std::mutex> lock(queueMutex)
DestructorLock ==
    /\ pc = "enqueueLock"
    /\ enqueued = Len(tocList)
    /\ queueMutex = 0
    /\ queueMutex' = MainThread
    /\ pc' = "setStop"
    /\ UNCHANGED <<archiveState, printMtx, poolVars, status, fPtr>>

\* ~ThreadPool: stop = true and the end of the lock's scope
SetStop ==
    /\ pc = "setStop"
    /\ stop' = TRUE
    /\ queueMutex' = 0
    /\ pc' = "notifyAll"
    /\ UNCHANGED <<archiveState, printMtx, envVars, status, fPtr, numThreads, tasks,
                   enqueued, wpc, wtask, wdata, mtx, outputs, dirs, result, streamAtStart>>

\* ~ThreadPool: condition.notify_all(); the joins are JoinWorkers
NotifyAll ==
    /\ pc = "notifyAll"
    /\ wpc' = [w \in Workers |-> IF wpc[w] = "blocked" THEN "acquire" ELSE wpc[w]]
    /\ pc' = "join"
    /\ UNCHANGED <<archiveState, syncVars, envVars, status, fPtr, numThreads, tasks, stop,
                   enqueued, wtask, wdata, mtx, outputs, dirs, result, streamAtStart>>

\* the worker loop: std::unique_lock<std::mutex> lock(this->queueMutex), also
\* when condition.wait locks the mutex again after a notification
LockQueue(w) ==
    /\ wpc[w] = "acquire"
    /\ queueMutex = 0
    /\ queueMutex' = w
    /\ wpc' = [wpc EXCEPT ![w] = "check"]
    /\ UNCHANGED <<archiveState, printMtx, envVars, pc, status, fPtr, numThreads, tasks,
                   stop, enqueued, wtask, wdata, mtx, outputs, dirs, result, streamAtStart>>

\* a worker that runs its task inside the scope of the queue lock
WaitOrTakeInsideLock(w) ==
    /\ wpc[w] = "check"
    /\ IF ~(stop \/ tasks # <<>>)
       THEN /\ wpc' = [wpc EXCEPT ![w] = "blocked"]
            /\ queueMutex' = 0
            /\ UNCHANGED <<tasks, wtask>>
       ELSE IF stop /\ tasks = <<>>
       THEN /\ wpc' = [wpc EXCEPT ![w] = "exited"]
            /\ queueMutex' = 0
            /\ UNCHANGED <<tasks, wtask>>
       ELSE /\ wtask' = [wtask EXCEPT ![w] = Head(tasks)]
            /\ tasks' = Tail(tasks)
            /\ wpc' = [wpc EXCEPT ![w] = "lock"]
            /\ UNCHANGED queueMutex
    /\ UNCHANGED <<archiveState, printMtx, envVars, pc, status, fPtr, numThreads, stop,
                   enqueued, wdata, mtx, outputs, dirs, result, streamAtStart>>

\* the worker loop under the lock: condition.wait tests its predicate and
\* blocks, releasing the mutex, when it is false; otherwise the worker
\* returns, or takes the front task, and the scope of the lock ends
WaitOrTake(w) ==
    /\ wpc[w] = "check"
    /\ queueMutex' = 0
    /\ IF ~(stop \/ tasks # <<>>)
       THEN /\ wpc' = [wpc EXCEPT ![w] = "blocked"]
            /\ UNCHANGED <<tasks, wtask>>
       ELSE IF stop /\ tasks = <<>>
       THEN /\ wpc' = [wpc EXCEPT ![w] = "exited"]
            /\ UNCHANGED <<tasks, wtask>>
       ELSE /\ wtask' = [wtask EXCEPT ![w] = Head(tasks)]
            /\ tasks' = Tail(tasks)
            /\ wpc' = [wpc EXCEPT ![w] = "lock"]
    /\ UNCHANGED <<archiveState, printMtx, envVars, pc, status, fPtr, numThreads, stop,
                   enqueued, wdata, mtx, outputs, dirs, result, streamAtStart>>

\* std::lock_guard<std::mutex> lock(printMtx), in each of the four log blocks
LockPrint(w) ==
    /\ wpc[w] = "log"
    /\ printMtx = 0
    /\ printMtx' = w
    /\ wpc' = [wpc EXCEPT ![w] = "printing"]
    /\ UNCHANGED <<archiveState, queueMutex, envVars, pc, status, fPtr, numThreads, tasks,
                   stop, enqueued, wtask, wdata, mtx, outputs, dirs, result, streamAtStart>>

\* the line is printed, the scope of the lock ends and the task returns
UnlockPrint(w) ==
    /\ wpc[w] = "printing"
    /\ printMtx' = 0
    /\ wpc' = [wpc EXCEPT ![w] = "acquire"]
    /\ UNCHANGED <<archiveState, queueMutex, envVars, pc, status, fPtr, numThreads, tasks,
                   stop, enqueued, wtask, wdata, mtx, outputs, dirs, result, streamAtStart>>

NextPool ==
    \/ ConstructPool
    \/ EnqueueLock
    \/ EnqueuePush
    \/ NotifyOne
    \/ DestructorLock
    \/ SetStop
    \/ NotifyAll
    \/ JoinWorkers
    \/ \E w \in Workers : LockQueue(w)
    \/ \E w \in Workers : WaitOrTake(w)
    \/ \E w \in Workers : LockFile(w)
    \/ \E w \in Workers : SeekEntry(w)
    \/ \E w \in Workers : ReadCompressed(w)
    \/ \E w \in Workers : DecompressThen(w, "log")
    \/ \E w \in Workers : OpenOutputThen(w, "log")
    \/ \E w \in Workers : WriteOutputThen(w, "log")
    \/ \E w \in Workers : LockPrint(w)
    \/ \E w \in Workers : UnlockPrint(w)

NextSync ==
    \/ Open
    \/ IsFileValid
    \/ FindCookie
    \/ DeterminePyinstallerVersion
    \/ ReadArchiveData
    \/ CalculateOverlayInfo
    \/ ParseTOCBegin
    \/ ParseTOCEntry
    \/ ParseTOCEnd
    \/ ReparseTOC
    \/ NextPool

\* archives whose tasks log a success, log a failure, or throw
SyncTocs == {EncodeAll(q) : q \in {<<EMod, EBig>>, <<EFile, ENest>>, <<EBig>>}}
SyncInputs ==
    {[file |-> Archive(0, t, Len(Payload) + Len(t) + PYINST21_COOKIE_SIZE,
                       Len(Payload), Len(t), TagV1),
      chunk |-> SearchChunkSize] : t \in SyncTocs}
SyncEnvs == {[cores |-> n, max |-> MaxWorkers, unwritable |-> {}] : n \in {0, 1}}

InitSync ==
    /\ InitArchive(SyncInputs, SyncEnvs)
    /\ command = "-u"
    /\ m_selectedFile = <<>>

\* every thread that can take a step takes one in the end
SpecSync == InitSync /\ [][NextSync]_vars /\ WF_vars(NextPool)

(***************************************************************************)
(* Properties of the signature search.                                     *)
(***************************************************************************)
MagicOffsets(f) == {p \in 0..(Len(f) - Len(MAGIC)) : MagicAt(f, p)}
LastMagic(f) == CHOOSE p \in MagicOffsets(f) : \A q \in MagicOffsets(f) : q <= p
\* the search has returned, run with the chunk size checkFile passes
SearchDone ==
    /\ pc \notin {"open", "isFileValid", "findCookie"}
    /\ searchChunkSize = SearchChunkSize
SearchFailed == status \in {"FileTooShort", "SignatureNotFound"}

\* C1: when the magic occurs in the file, the search returns the largest
\* offset at which the file holds the magic.
C1_RightmostOccurrence ==
    (SearchDone /\ MagicOffsets(file) # {}) =>
        (~SearchFailed /\ cookiePos = LastMagic(file))

\* C2: a reported cookie position holds the magic in the file, and a file
\* without the magic is reported as a failure with no position.
C2_ReportedPositionIsMagic ==
    SearchDone =>
        /\ ~SearchFailed => MagicAt(file, cookiePos)
        /\ MagicOffsets(file) = {} => (SearchFailed /\ cookiePos = -1)

(***************************************************************************)
(* Properties of the layout detection.                                     *)
(***************************************************************************)
\* the bytes of the file from offset p + 24, at most 64 of them
ProbeWindow(f, p) ==
    SubSeq(f, p + PYINST20_COOKIE_SIZE + 1,
           Min(p + PYINST20_COOKIE_SIZE + VersionProbeSize, Len(f)))

HasTokenAnyCase(w) ==
    \E i \in 0..(Len(w) - Len(PythonToken)) :
        \A k \in 1..Len(PythonToken) :
            w[i + k] = PythonToken[k] \/ w[i + k] = PythonToken[k] - 32

VersionDone ==
    /\ SearchDone
    /\ pc # "determineVersion"
    /\ ~SearchFailed
    /\ MagicAt(file, cookiePos)

\* C8: once the magic is found at p, the layout is V1 (88 bytes) when the
\* window at p + 24 holds "python" in any case and V0 (24 bytes) otherwise,
\* also when the file ends inside the window.
C8_LayoutFromProbe ==
    VersionDone =>
        /\ status # "IncompleteVersionRead"
        /\ pyinstVer = IF HasTokenAnyCase(ProbeWindow(file, cookiePos)) THEN 21 ELSE 20

(***************************************************************************)
(* Properties of the offset resolution.                                    *)
(***************************************************************************)
HeaderSize == IF pyinstVer = 21 THEN 88 ELSE 24
ResolverRan == parseRun >= 1 \/ status = "TOCBoundsInvalid"
\* 0 <= x as an unsigned value below 2^63, x < fileSize, x + tocSize <= fileSize
InBounds(x) == x >= 0 /\ x < fileSize /\ x + tableOfContentsSize <= fileSize
PrimaryToc == overlayPos + toc
FallbackToc == cookiePos + HeaderSize + toc

\* C9: the resolved TOC position is overlayPos + toc when that is in bounds,
\* else cookiePos + headerSize + toc when that is in bounds, else the
\* resolution fails with TOCBoundsInvalid.
C9_PrimaryThenFallback ==
    ResolverRan =>
        /\ tableOfContentsSize = tocLen
        /\ IF InBounds(PrimaryToc)
           THEN tableOfContentsPos = PrimaryToc /\ status # "TOCBoundsInvalid"
           ELSE IF InBounds(FallbackToc)
           THEN tableOfContentsPos = FallbackToc /\ status # "TOCBoundsInvalid"
           ELSE status = "TOCBoundsInvalid" /\ pc = "exit"

\* C9 witness: the primary position is out of bounds and the fallback is used
C9_FallbackUsed ==
    /\ pc = "parseTOC"
    /\ ~InBounds(PrimaryToc)
    /\ InBounds(FallbackToc)
    /\ tableOfContentsPos = FallbackToc
    /\ FallbackToc # PrimaryToc

TocStage == pc \in {"parseTOC", "parseLoop", "command", "extract", "enqueue", "join"}

\* C10: while the TOC is decoded, and when extraction starts, the TOC region
\* lies inside the file; a header that is out of bounds under both formulas
\* never gets there.
C10_TocInsideFile ==
    /\ TocStage => InBounds(tableOfContentsPos)
    /\ (ResolverRan /\ ~InBounds(PrimaryToc) /\ ~InBounds(FallbackToc)) =>
           (~TocStage /\ tocList = <<>>)

\* C10 witness: the decode has listed an entry of a TOC that ends at the end
\* of the file, found at the fallback position
C10_DecodeAtFileEnd ==
    /\ pc = "parseLoop"
    /\ tocList # <<>>
    /\ ~InBounds(PrimaryToc)
    /\ tableOfContentsPos + tableOfContentsSize = fileSize


(***************************************************************************)
(* Properties of the TOC decoding.                                         *)
(***************************************************************************)
\* the first parseTOC of the run has returned its list
FirstParseDone == parseRun >= 1 /\ (pc = "command" \/ parseRun = 2 \/ status = "ok")

\* the name an entry is listed under: the bytes of the record, with ".pyc"
\* added to a script or module name that has no extension
ListedName(e) ==
    IF e.typeCmprsData \in ScriptTypes /\ ~HasByte(e.nameBuffer, Dot)
    THEN e.nameBuffer \o PycSuffix ELSE e.nameBuffer

SameEntry(d, e) ==
    /\ d.name = ListedName(e)
    /\ d.cmprsdDataSize = e.cmprsdDataSize
    /\ d.uncmprsdDataSize = e.uncmprsdDataSize
    /\ d.cmprsFlag = e.cmprsFlag
    /\ d.typeCmprsData = e.typeCmprsData

\* C3: decoding the TOC built from N well-formed entries yields N entries,
\* in order, with the names, sizes and compression flags they were built from.
C3_RoundTrip ==
    \A q \in SeqsUpTo(WellFormed, MaxEntries) :
        (FirstParseDone /\ file \in ArchivesOf(EncodeAll(q))) =>
            /\ Len(listed) = Len(q)
            /\ \A i \in 1..Len(q) : SameEntry(listed[i], q[i])

\* C4: a second decode of the same TOC in the same run yields the list the
\* first decode yielded, synthesized names included.
C4_DecodeIdempotent ==
    pc = "extract" => tocList = listed

\* C5: a record whose entrySize is below 18 is skipped and the well-formed
\* record that follows it inside the TOC region is still decoded and listed.
C5_ShortRecordSkipped ==
    \A e \in WellFormed :
        (FirstParseDone /\ file \in ArchivesOf(ShortRecord \o EncodeEntry(e))) =>
            \E i \in 1..Len(listed) :
                /\ listed[i].cmprsdDataSize = e.cmprsdDataSize
                /\ listed[i].uncmprsdDataSize = e.uncmprsdDataSize
                /\ listed[i].typeCmprsData = e.typeCmprsData

(***************************************************************************)
(* Properties of the extraction.                                           *)
(***************************************************************************)
ExtractDone == pc = "exit" /\ status = "ok" /\ command = "-u"

\* the output files a pool of one worker leaves: the tasks run one after
\* the other, in the order of the entry list, from the stream the extraction
\* was entered with
RECURSIVE SingleWorkerRun(_, _, _, _)
SingleWorkerRun(k, s, outs, ds) ==
    IF k > Len(tocList) THEN outs
    ELSE LET e == tocList[k]
             r == DecompressedData(e, CompressedData(file, s, e))
             after == AfterRead(file, Seekg(s, e.position), e.cmprsdDataSize)
         IN  IF r.result # "Z_STREAM_END"
             THEN SingleWorkerRun(k + 1, after, outs, ds)
             ELSE IF CreateDirectoriesFails(e.name, outs) THEN outs
             ELSE SingleWorkerRun(k + 1, after,
                      IF e.name \in unwritable \/ e.name \in ds
                      THEN outs
                      ELSE (e.name :> r.out) @@ outs,
                      ds \cup Ancestors(e.name))

SingleWorkerOutputs == SingleWorkerRun(1, streamAtStart, <<>>, {})

\* the pool of size 1 does leave what SingleWorkerOutputs computes
SingleWorkerIsSequential ==
    (ExtractDone /\ numThreads = 1) => outputs = SingleWorkerOutputs

\* C6: whatever the size of the pool and the interleaving of its workers, the
\* extraction leaves the output files, with the contents, that a pool of one
\* worker leaves for the same archive and entry list.
C6_PoolSizeIndependent ==
    ExtractDone => outputs = SingleWorkerOutputs

\* the payload bytes of entry e, when they lie inside the file
PayloadOf(e) == Slice(file, e.position, e.cmprsdDataSize)
PayloadInFile(e) == e.position >= 0 /\ e.position + e.cmprsdDataSize <= Len(file)

\* inflating the payload of e consumes cmprsdDataSize bytes and produces
\* uncmprsdDataSize bytes
InflatesExactly(e) ==
    /\ PayloadInFile(e)
    /\ e.cmprsdDataSize >= 2
    /\ PayloadOf(e)[1] = ZHeader
    /\ PayloadOf(e)[2] + 2 = e.cmprsdDataSize
    /\ PayloadOf(e)[2] = e.uncmprsdDataSize

SizeMismatch(e) == e.cmprsFlag # 0 /\ PayloadInFile(e) /\ ~InflatesExactly(e)

\* entries that extract: payload in the file, stored or inflating exactly,
\* and an output path that can be opened and is no other entry's
Sound(i) ==
    /\ PayloadInFile(tocList[i])
    /\ tocList[i].cmprsFlag # 0 => InflatesExactly(tocList[i])
    /\ tocList[i].name \notin unwritable

\* C7: a compressed entry whose inflation does not consume cmprsdDataSize
\* bytes and produce uncmprsdDataSize bytes is reported as DecompressionFailed
\* and leaves no output file, and the other entries are extracted.
C7_MismatchFailsEntryOnly ==
    (ExtractDone /\ ~fPtr.fail) =>
        \A i \in 1..Len(tocList) :
            SizeMismatch(tocList[i]) =>
                /\ result[i] = "DecompressionFailed"
                /\ (\A j \in 1..Len(tocList) : j # i => tocList[j].name # tocList[i].name)
                       => tocList[i].name \notin DOMAIN outputs
                /\ \A j \in 1..Len(tocList) :
                       (j # i /\ Sound(j)) => result[j] = "Extracted"

(***************************************************************************)
(* Properties of the error handling.                                       *)
(***************************************************************************)
Fatal ==
    status \in {"FileTooShort", "SignatureNotFound", "IncompleteHeaderRead",
                "InvalidMagic", "TOCBoundsInvalid"}

\* C11: after a fatal condition of the decode phase the run has ended with
\* that failure, no TOC was decoded, the entry list is empty, and no pool,
\* task or output file exists.
C11_FatalAbortsSession ==
    Fatal =>
        /\ pc = "exit"
        /\ parseRun = 0
        /\ tocList = <<>> /\ listed = <<>>
        /\ numThreads = 0 /\ tasks = <<>> /\ enqueued = 0
        /\ \A w \in Workers : wpc[w] = "none"
        /\ result = <<>> /\ outputs = <<>>

\* C11 witness: the header re-read found other bytes than the magic
C11_HeaderMagicMismatch ==
    /\ status = "InvalidMagic"
    /\ pc = "exit"
    /\ ~MagicAt(file, cookiePos)

(***************************************************************************)
(* Properties of the thread pool.                                          *)
(***************************************************************************)
Busy(w) == wpc[w] \in {"lock", "seek", "read", "inflate", "open", "write"}

\* how often the task of entry i is queued, in a worker's hands, or finished
Occurrences(i) ==
    Cardinality({k \in 1..Len(tasks) : tasks[k] = i})
        + Cardinality({w \in Workers : Busy(w) /\ wtask[w] = i})
        + (IF result[i] # "pending" THEN 1 ELSE 0)

EachTaskOnce ==
    \A i \in 1..Len(result) : Occurrences(i) = (IF i <= enqueued THEN 1 ELSE 0)

AllTasksFinished ==
    /\ Len(result) = Len(tocList)
    /\ \A i \in 1..Len(result) : result[i] # "pending"
    /\ tasks = <<>>
    /\ \A w \in Workers : ~Busy(w)

PoolRunOver == pc = "exit" /\ numThreads >= 1

\* no other entry's path runs through the path of entry i, or the other way round
PathFree(i) ==
    \A j \in 1..Len(tocList) :
        j # i => /\ tocList[j].name \notin Ancestors(tocList[i].name)
                 /\ tocList[i].name \notin Ancestors(tocList[j].name)
                 /\ tocList[j].name # tocList[i].name

\* C13: a directory or output file that cannot be made fails its own entry
\* only: when the run is over every entry has its line, "Extracted" or a
\* failure, and an entry with nothing in the way of its output is extracted.
C13_OutputFailureIsLocal ==
    (PoolRunOver /\ ~fPtr.fail) =>
        \A i \in 1..Len(tocList) :
            /\ result[i] \in {"Extracted", "DecompressionFailed", "OpenFailed"}
            /\ (PathFree(i) /\ Sound(i) /\ ~SizeMismatch(tocList[i])) => result[i] = "Extracted"

(***************************************************************************)
(* C14: the path of an output file.                                        *)
(***************************************************************************)
Colon == 58
Separators == {Slash, Backslash}
IsLetter(c) == (c >= 65 /\ c <= 90) \/ (c >= 97 /\ c <= 122)

\* a drive prefix "X:": std::filesystem::path's operator/ replaces the
\* output directory by a right operand that has a root name of its own
HasRootName(name) == Len(name) >= 2 /\ IsLetter(name[1]) /\ name[2] = Colon

IsAbsoluteName(name) ==
    name # <<>> /\ (name[1] \in Separators \/ HasRootName(name))

HasDotDotComponent(name) ==
    \E i \in 1..(Len(name) - 1) :
        /\ name[i] = Dot /\ name[i + 1] = Dot
        /\ (i = 1 \/ name[i - 1] \in Separators)
        /\ (i + 1 = Len(name) \/ name[i + 2] \in Separators)

StaysInside(name) == ~IsAbsoluteName(name) /\ ~HasDotDotComponent(name)

\* C14: every name of a decoded entry list stays inside the output
\* directory when appended to it: it is not absolute (no leading separator,
\* no drive prefix) and has no ".." component.
C14_NamesStayInside ==
    FirstParseDone => \A i \in 1..Len(listed) : StaysInside(listed[i].name)
(***************************************************************************)
(* C15: a TOC scan that stops early.                                       *)
(***************************************************************************)
\* the bytes the payload region holds for an entry built from template e
ExpectedBytes(e) ==
    IF e.cmprsFlag = 0 THEN Slice(Payload, e.entryPos, e.cmprsdDataSize)
    ELSE Slice(Payload, e.entryPos + 2, e.uncmprsdDataSize)

ListsPrefix(list, q) ==
    /\ Len(list) = Len(q)
    /\ \A i \in 1..Len(q) : SameEntry(list[i], q[i])

ExtractsPrefix(q) ==
    \A i \in 1..Len(q) :
        /\ ListedName(q[i]) \in DOMAIN outputs
        /\ outputs[ListedName(q[i])] = ExpectedBytes(q[i])

\* C15: when the scan of the TOC stops with the parsed length different from
\* the TOC size, decoding succeeds, the list holds the entries decoded before
\* the stop, in scan order, and the extraction writes their payload bytes.
C15_PrefixStillUsable ==
    \A q \in PrefixSeqs :
        file \in {ShortStopped(q), TruncStopped(q)} =>
            /\ ~Fatal
            /\ FirstParseDone => ListsPrefix(listed, q)
            /\ ExtractDone => ExtractsPrefix(q)
(***************************************************************************)
(* C16: the four fields of the header.                                     *)
(***************************************************************************)
\* readArchiveData has filled the four fields
HeaderRead ==
    /\ pc \notin {"open", "isFileValid", "findCookie", "determineVersion", "readArchiveData"}
    /\ status \notin {"FileTooShort", "SignatureNotFound", "IncompleteVersionRead",
                      "IncompleteHeaderRead", "InvalidMagic"}

\* the four bytes of the file at offset off of the header
HeaderBytes(off) == Slice(file, cookiePos + off, 4)

IsBigEndianOf(v, b) ==
    /\ Digits(v) = b
    /\ b[1] < 128 => v = b[1] * 16777216 + b[2] * 65536 + b[3] * 256 + b[4]
    /\ b[1] >= 128 => v = (b[1] - 256) * 16777216 + b[2] * 65536 + b[3] * 256 + b[4]

\* C16: the decoded package length, TOC offset, TOC length and interpreter
\* version are the big-endian values b0*2^24 + b1*2^16 + b2*2^8 + b3 of the
\* bytes at header offsets 8, 12, 16 and 20 (a value of 2^31 or more is held
\* as its representative minus 2^32).
C16_FieldsBigEndian ==
    HeaderRead =>
        /\ IsBigEndianOf(lengthofPackage, HeaderBytes(8))
        /\ IsBigEndianOf(toc, HeaderBytes(12))
        /\ IsBigEndianOf(tocLen, HeaderBytes(16))
        /\ IsBigEndianOf(pyver, HeaderBytes(20))

\* C16 witness: a version field of four different bytes, the first above 127
C16_HighByteField ==
    /\ HeaderRead
    /\ HeaderBytes(20) = <<255, 128, 1, 0>>
    /\ pyver = -8388352
(***************************************************************************)
(* C17: the scan and the TOC region.                                       *)
(***************************************************************************)
\* the file offset behind the last byte of the TOC region
RegionEnd == tableOfContentsPos + tableOfContentsSize

\* parseTOC is running, or has just returned into getCArchiveInfo
Scanning == pc = "parseLoop" \/ (pc = "command" /\ parseRun = 1)

\* C17: the TOC decoder reads no byte at or behind the end of the TOC
\* region, its parsed length never exceeds the TOC size, and a record that
\* is larger than what is left of the region is not decoded into an entry.
C17_ScanStaysInRegion ==
    /\ Scanning =>
          /\ ~UGreater(parsedLen, tableOfContentsSize)
          /\ ~fPtr.fail => fPtr.pos <= RegionEnd
    /\ \A q \in OverrunSeqs : \A cut \in Cuts :
          (FirstParseDone /\ file = OverrunArchive(q, cut)) => Len(listed) < Len(q)
(***************************************************************************)
(* C18: the file mutex.                                                    *)
(***************************************************************************)
\* worker w is between taking the file mutex and the end of its read
InFileSection(w) == wpc[w] \in {"seek", "read"}

\* C18: at most one worker at a time is between its seek of the shared
\* stream and the end of its read, so the stream a worker reads from is where
\* its own seek put it; a worker that inflates, opens or writes its output
\* does not hold the file mutex.
C18_SeekReadAtomic ==
    /\ \A w \in Workers : \A v \in Workers : (InFileSection(w) /\ InFileSection(v)) => w = v
    /\ \A w \in Workers : InFileSection(w) => mtx = w
    /\ \A w \in Workers :
          (wpc[w] = "read" /\ ~fPtr.fail) => fPtr.pos = tocList[wtask[w]].position
    /\ \A w \in Workers : wpc[w] \in {"inflate", "open", "write"} => mtx # w

\* C18 witness: one worker has done its seek and the other one, whose entry
\* lies elsewhere in the file, is waiting for the mutex
C18_OneReadsOneWaits ==
    \E w \in Workers : \E v \in Workers :
        /\ wpc[w] = "read" /\ mtx = w
        /\ wpc[v] = "lock"
        /\ tocList[wtask[w]].position # tocList[wtask[v]].position
(***************************************************************************)
(* C19: stored entries.                                                    *)
(***************************************************************************)
\* entry i is stored as it is and its payload lies inside the file
StoredInFile(i) == tocList[i].cmprsFlag = 0 /\ PayloadInFile(tocList[i])

\* C19: the output file of a stored entry whose payload lies inside the file
\* holds exactly those bytes of the file, whatever the other entries of the
\* list are (also one whose payload lies behind the end of the file) and in
\* whatever order the workers run them.
C19_StoredEntryVerbatim ==
    ExtractDone =>
        \A i \in 1..Len(tocList) :
            (StoredInFile(i) /\ PathFree(i) /\ tocList[i].name \notin unwritable) =>
                /\ tocList[i].name \in DOMAIN outputs
                /\ outputs[tocList[i].name] = PayloadOf(tocList[i])
(***************************************************************************)
(* C20: the ".pyc" suffix.                                                 *)
(***************************************************************************)
\* the last path component of the name holds a dot
HasExtension(name) ==
    \E i \in 1..Len(name) :
        name[i] = Dot /\ \A j \in i..Len(name) : name[j] \notin Separators

\* the name with ".pyc" added exactly to a script or module name that has no
\* extension
FinalName(type, name) ==
    IF type \in ScriptTypes /\ ~HasExtension(name) THEN name \o PycSuffix ELSE name

\* C20: an entry is listed under its name with ".pyc" appended exactly when
\* its type is 's' or 'm' and the name has no extension; a script or module
\* name with an extension and a name of any other type are listed unchanged.
C20_PycOnlyWithoutExtension ==
    \A q \in SeqsUpTo(WellFormed, MaxEntries) :
        (FirstParseDone /\ file \in ArchivesOf(EncodeAll(q)) /\ Len(listed) = Len(q)) =>
            \A i \in 1..Len(q) :
                listed[i].name = FinalName(q[i].typeCmprsData, q[i].nameBuffer)
(***************************************************************************)
(* C21: characters of a listed name.                                       *)
(***************************************************************************)
\* : \ * ? " < > |
IllegalChars == {Colon, Backslash, 42, 63, 34, 60, 62, 124}
IsControlCode(c) == c < 32 \/ c = 127

CleanName(name) ==
    /\ name # <<>>
    /\ name[1] \notin Separators
    /\ \A i \in 1..Len(name) : name[i] \notin IllegalChars /\ ~IsControlCode(name[i])

\* C21: no entry of a decoded list has a name that is empty, starts with a
\* path separator, or holds one of : \ * ? " < > | or a control code; such
\* a name has been replaced by a synthesized one.
C21_NoIllegalNames ==
    FirstParseDone => \A i \in 1..Len(listed) : CleanName(listed[i].name)
(***************************************************************************)
(* C22: the position of an entry.                                          *)
(***************************************************************************)
\* the eight base-256 digits of a 64-bit value held as the representative v
Digits64(v) == (IF v < 0 THEN <<255, 255, 255, 255>> ELSE <<0, 0, 0, 0>>) \o Digits(v)

\* the eight digits of a 32-bit value converted to 64 bits
ZeroExtend(v) == <<0, 0, 0, 0>> \o Digits(v)

\* the digits 1..k of the sum of two digit sequences, c carried in
RECURSIVE AddDigits(_, _, _, _)
AddDigits(a, b, k, c) ==
    IF k = 0 THEN <<>>
    ELSE AddDigits(a, b, k - 1, (a[k] + b[k] + c) \div 256) \o <<(a[k] + b[k] + c) % 256>>

Sum64(a, b) == AddDigits(a, b, 8, 0)

\* C22: the position stored for an entry is the 64-bit sum of the overlay
\* position and the entry's 32-bit entryPos, also when the sum is 2^32 or
\* more.
C22_PositionIsFullSum ==
    \A q \in WideSeqs :
        (FirstParseDone /\ file = WideArchive(q) /\ Len(listed) = Len(q)) =>
            \A i \in 1..Len(q) :
                ZeroExtend(listed[i].position)
                    = Sum64(Digits64(overlayPos), ZeroExtend(q[i].entryPos))
(***************************************************************************)
(* C23: the size of the pool.                                              *)
(***************************************************************************)
\* the pool of MultiThreadedFileExtract exists
PoolExists == pc \in {"enqueue", "join"}

Dequeued(i) == i <= enqueued /\ \A k \in 1..Len(tasks) : tasks[k] # i

\* C24: tasks leave the queue in the order they were enqueued: at every
\* moment the tasks that have left it are the ones enqueued first and the
\* queue holds the others in that order; with one worker the entries are
\* therefore finished in the order of the list.
C24_QueueIsFifo ==
    PoolExists =>
        /\ \A i \in 1..enqueued : \A j \in 1..enqueued : (i < j /\ Dequeued(j)) => Dequeued(i)
        /\ \A k \in 1..(Len(tasks) - 1) : tasks[k] < tasks[k + 1]
        /\ numThreads = 1 =>
              \A i \in 1..Len(result) : \A j \in 1..Len(result) :
                  (i < j /\ result[j] # "pending") => result[i] # "pending"

\* C24 witness: with two workers, the first task is in a worker's hands and
\* the second one still queued
C24_FirstOutSecondQueued ==
    /\ PoolExists /\ numThreads = 2
    /\ tasks = <<2>>
    /\ \E w \in Workers : Busy(w) /\ wtask[w] = 1
C26_ScanTerminates ==
    /\ [][pc = "parseLoop" =>
            \/ pc' # "parseLoop"
            \/ /\ parsedLen' >= parsedLen + sizeofEntry
               /\ fPtr'.fail \/ fPtr'.pos >= fPtr.pos + sizeofEntry]_<<pc, parsedLen, fPtr>>
    /\ [](pc = "parseLoop" => parsedLen < 2 * tableOfContentsSize \/ parsedLen = 0)

\* C26 witness: the scan has ended at a malformed record, before the end of
\* the region, after it had decoded an entry
C26_StoppedAtMalformed ==
    /\ pc = "command" /\ parseRun = 1
    /\ Len(listed) >= 1
    /\ ULess(parsedLen, tableOfContentsSize)
(***************************************************************************)
(* C27: the overlay position is computed without wrap-around.              *)
(***************************************************************************)
\* C27: once calculateOverlayInfo has accepted a layout, the overlay position
\* is the true difference fileSize - (lengthofPackage + tailBytes): it has
\* not wrapped below zero, it is at most the cookie position, and the
\* overlay ends at the end of the file.
C27_OverlayPosNoWrap ==
    TocStage =>
        /\ TailBytes(fileSize, cookiePos, pyinstVer) >= 0
        /\ overlayPos >= 0
        /\ overlayPos <= cookiePos
        /\ overlayPos + overlaySize = fileSize
(***************************************************************************)
(* C28: the entries the extraction worker processes.                       *)
(***************************************************************************)
\* startExtraction has returned after it had chosen its entries
WorkerRanLoop == pc = "returned" /\ status \in {"ok", "Exception"}

\* the entries decompressAndExtractFile was called for, in order; the call
\* that threw is the one for toExtract[extractIndex + 1]
Called ==
    SubSeq(toExtract, 1, IF status = "Exception" THEN extractIndex + 1 ELSE extractIndex)

\* the positions in the decoded list of the entries named by the selector
Named == {k \in 1..Len(tocList) : tocList[k].name = m_selectedFile}

\* what the worker is to process: the whole list, or the first entry named
ToProcess ==
    IF m_selectedFile = <<>> THEN tocList
    ELSE IF Named = {} THEN <<>>
    ELSE <<tocList[CHOOSE k \in Named : \A j \in Named : k <= j]>>

\* C28: when startExtraction returns, the entries it has processed are every
\* entry of the decoded list, once each and in TOC order, if the selector is
\* empty, and otherwise the first entry with the selected name alone, or
\* none if no entry has that name.
C28_ProcessesSelection == WorkerRanLoop => Called = ToProcess

\* the selection itself, and the runs that end with finished, are as C28 says
SelectionAsDescribed ==
    /\ pc \in {"extractLoop", "catch"} => toExtract = ToProcess
    /\ (pc = "returned" /\ status = "ok") => Called = ToProcess
(***************************************************************************)
(* C29: the signals of startExtraction.                                    *)
(***************************************************************************)
ProgressAt == {k \in 1..Len(signals) : signals[k].signal = "progress"}
EndingAt == {k \in 1..Len(signals) : signals[k].signal \in {"finished", "errorOccurred"}}

\* one ending signal, emitted last, exactly when startExtraction has returned
OneEndingSignal ==
    /\ Cardinality(EndingAt) = (IF pc = "returned" THEN 1 ELSE 0)
    /\ \A k \in EndingAt : k = Len(signals)

\* progress values lie in 1..100 and never decrease
ProgressInRange ==
    /\ \A k \in ProgressAt : signals[k].percent \in 1..100
    /\ \A j, k \in ProgressAt : j < k => signals[j].percent <= signals[k].percent

\* the last progress value is 100
LastProgressIsFull ==
    /\ ProgressAt # {}
    /\ \A k \in ProgressAt : (\A j \in ProgressAt : j <= k) => signals[k].percent = 100

\* C29: a run of startExtraction ends with exactly one of finished and
\* errorOccurred, emitted after every progress value; the progress values
\* lie in 1..100 and do not decrease; when the run has ended and at least
\* one entry was selected the last progress value is 100, and when no entry
\* was selected there is no progress value.
C29_SignalProtocol ==
    /\ OneEndingSignal
    /\ ProgressInRange
    /\ (WorkerRanLoop /\ toExtract # <<>>) => LastProgressIsFull
    /\ toExtract = <<>> => ProgressAt = {}

\* the same for the runs that end with finished
ProtocolWhenFinished ==
    /\ OneEndingSignal
    /\ ProgressInRange
    /\ (pc = "returned" /\ status = "ok" /\ toExtract # <<>>) => LastProgressIsFull
    /\ toExtract = <<>> => ProgressAt = {}
(***************************************************************************)
(* C30: the locks of the pool.                                             *)
(***************************************************************************)
Threads == Workers \cup {MainThread}
HeldBy(t) == {m \in {"queueMutex", "mtx", "printMtx"} :
                 \/ m = "queueMutex" /\ queueMutex = t
                 \/ m = "mtx" /\ mtx = t
                 \/ m = "printMtx" /\ printMtx = t}

\* the pool exists and the process has not been terminated
PoolAlive ==
    pc \in {"enqueueLock", "enqueuePush", "notifyOne", "setStop", "notifyAll", "join"}

\* C30: no thread holds two of the mutexes queueMutex, mtx and printMtx at
\* once; while the pool exists some thread can take a step; and a worker
\* that is blocked in condition.wait is woken later, by the notification of
\* an enqueue or of the stop signal.
C30_LocksNeverNest ==
    /\ [](\A t \in Threads : Cardinality(HeldBy(t)) <= 1)
    /\ [](PoolAlive => ENABLED NextPool)
    /\ \A w \in Workers : (wpc[w] = "blocked") ~> (wpc[w] # "blocked")
    /\ PoolAlive ~> (pc = "exit")

\* C30 witness: one worker holds the file mutex, another is blocked in the
\* wait, and the main thread holds the queue mutex to enqueue
C30_AllBusy ==
    /\ pc = "enqueuePush"
    /\ queueMutex = MainThread
    /\ \E w \in Workers : mtx = w
    /\ \E w \in Workers : wpc[w] = "blocked"
====
